---- MODULE Spec2Model ----
(***************************************************************************)
(* Model of the invoicing server: the storage layer (server/storage.ts),   *)
(* the company-scoped routes (server/routes.ts) and the tables of          *)
(* shared/schema.ts.  Money columns are decimal(10,2): a stored amount is  *)
(* an exact number of cents.  The server reads them with parseFloat and    *)
(* adds them as IEEE-754 doubles, so the arithmetic of the handlers is     *)
(* modelled on doubles (53-bit significands, round to nearest even).       *)
(***************************************************************************)
EXTENDS Integers, Sequences, FiniteSets, TLC

(***************************************************************************)
(* Binary numerals: a natural number is a sequence of bits, most           *)
(* significant first, without leading zeros (0 is the empty sequence).     *)
(***************************************************************************)
RECURSIVE NatToBits(_)
NatToBits(n) == IF n = 0 THEN << >> ELSE Append(NatToBits(n \div 2), n % 2)

Zeros(k) == [i \in 1..k |-> 0]

StripZeros(b) ==
  LET ones == {i \in 1..Len(b) : b[i] = 1}
  IN  IF ones = {} THEN << >>
      ELSE SubSeq(b, CHOOSE i \in ones : \A j \in ones : i <= j, Len(b))

PadLeft(b, k) == Zeros(k - Len(b)) \o b

\* Addition of two bit strings of the same length n; the result has n + 1
\* bits (the carry out comes first).  The carry into position k is 1 exactly
\* when some lower position j generates a carry (both bits 1) and every
\* position between them propagates it (exactly one bit 1).
CarryInto(a, b, k) ==
  \E j \in (k + 1)..Len(a) :
     /\ a[j] = 1
     /\ b[j] = 1
     /\ \A i \in (k + 1)..(j - 1) : a[i] + b[i] = 1

AddSameLen(a, b) ==
  [k \in 1..(Len(a) + 1) |->
     IF k = 1 THEN (IF CarryInto(a, b, 0) THEN 1 ELSE 0)
     ELSE (a[k - 1] + b[k - 1] + (IF CarryInto(a, b, k - 1) THEN 1 ELSE 0)) % 2]

AddBits(a, b) ==
  LET n  == IF Len(a) > Len(b) THEN Len(a) ELSE Len(b)
      pa == PadLeft(a, n)
      pb == PadLeft(b, n)
  IN  IF Len(pa) = Len(pb) THEN StripZeros(AddSameLen(pa, pb)) ELSE << >>

\* a >= b for bit strings of the same length (lexicographic order).
GeqSameLen(a, b) ==
  LET diff == {i \in 1..Len(a) : a[i] # b[i]}
  IN  diff = {} \/ a[CHOOSE i \in diff : \A j \in diff : i <= j] = 1

(***************************************************************************)
(* Doubles.  A positive double is [m, e]: m is its 53-bit significand      *)
(* (leading bit 1) and its value is m * 2^e.  Zero is [m |-> <<>>, e |-> 0]*)
(* Only non-negative values occur in the operations modelled here.         *)
(***************************************************************************)
SigBits == 53

DZero == [m |-> << >>, e |-> 0]

\* The significand plus one unit in the last place (a carry out of the top
\* bit renormalises: the significand becomes 1000...0 one exponent higher).
IncSig(m, e) ==
  LET s == AddBits(m, << 1 >>)
  IN  IF Len(s) > SigBits THEN [m |-> SubSeq(s, 1, SigBits), e |-> e + 1]
      ELSE [m |-> s, e |-> e]

\* Round an exact binary numeral b * 2^e (b without leading zeros, b # 0) to
\* the nearest double, ties to even.
RoundBits(b, e) ==
  LET n == Len(b)
  IN  IF n <= SigBits
      THEN [m |-> b \o Zeros(SigBits - n), e |-> e - (SigBits - n)]
      ELSE LET top    == SubSeq(b, 1, SigBits)
               rest   == SubSeq(b, SigBits + 1, n)
               guard  == rest[1]
               sticky == \E i \in 2..Len(rest) : rest[i] = 1
               e2     == e + (n - SigBits)
           IN  IF guard = 1 /\ (sticky \/ top[SigBits] = 1)
               THEN IncSig(top, e2)
               ELSE [m |-> top, e |-> e2]

\* x + y on doubles (both non-negative), as the + of the language.
DAdd(x, y) ==
  IF x.m = << >> THEN y
  ELSE IF y.m = << >> THEN x
  ELSE LET e0 == IF x.e < y.e THEN x.e ELSE y.e
           s  == AddBits(x.m \o Zeros(x.e - e0), y.m \o Zeros(y.e - e0))
       IN  RoundBits(s, e0)

\* x > y and x >= y on non-negative doubles.
DGt(x, y) ==
  IF x.m = << >> THEN FALSE
  ELSE IF y.m = << >> THEN TRUE
  ELSE IF x.e # y.e THEN x.e > y.e
  ELSE x.m # y.m /\ GeqSameLen(x.m, y.m)

DGeq(x, y) ==
  IF y.m = << >> THEN TRUE
  ELSE IF x.m = << >> THEN FALSE
  ELSE IF x.e # y.e THEN x.e > y.e
  ELSE GeqSameLen(x.m, y.m)

\* Subtraction a - b of two bit strings of the same length, a >= b.  The
\* borrow into position k is 1 exactly when some lower position j needs one
\* (a[j] = 0, b[j] = 1) and every position between them passes it on
\* (a[i] = b[i]).
BorrowInto(a, b, k) ==
  \E j \in (k + 1)..Len(a) :
     /\ a[j] = 0
     /\ b[j] = 1
     /\ \A i \in (k + 1)..(j - 1) : a[i] = b[i]

SubSameLen(a, b) ==
  [k \in 1..Len(a) |-> (a[k] + b[k] + (IF BorrowInto(a, b, k) THEN 1 ELSE 0)) % 2]

\* x - y on doubles with x >= y >= 0: the exact difference, rounded.
DSubMagnitude(x, y) ==
  IF y.m = << >> THEN x
  ELSE LET e0 == IF x.e < y.e THEN x.e ELSE y.e
           a  == x.m \o Zeros(x.e - e0)
           b  == PadLeft(y.m \o Zeros(y.e - e0), Len(a))
           s  == IF Len(a) = Len(b) THEN StripZeros(SubSameLen(a, b)) ELSE << >>
       IN  IF s = << >> THEN DZero ELSE RoundBits(s, e0)

\* x - y on non-negative doubles: sign (1, 0 or -1) and magnitude.
DSub(x, y) ==
  IF DGt(x, y) THEN [sign |-> 1, mag |-> DSubMagnitude(x, y)]
  ELSE IF DGt(y, x) THEN [sign |-> 0 - 1, mag |-> DSubMagnitude(y, x)]
  ELSE [sign |-> 0, mag |-> DZero]

\* The fraction of a decimal(10,2) value is expanded in binary three chunks
\* of ChunkBits places at a time (r * 2^20 < 2^31 for a remainder r < 100).
\* A value of at least 0.01 has at most 6 leading zero places, so the 60
\* places hold the 53 significant bits and the rounding bit.
ChunkBits == 20

TwoToChunk == 1048576

Chunk(r) == PadLeft(NatToBits((r * TwoToChunk) \div 100), ChunkBits)

ChunkRem(r) == (r * TwoToChunk) % 100

\* parseFloat of a decimal(10,2) column holding `cents` hundredths (cents >= 0):
\* the double nearest to cents / 100.  The fraction r / 100 is expanded by
\* long division; what is left after the last place is one more (sticky) bit.
ParseFloatCents(cents) ==
  IF cents = 0 THEN DZero
  ELSE LET r0 == cents % 100
           r1 == ChunkRem(r0)
           r2 == ChunkRem(r1)
           r3 == ChunkRem(r2)
           sticky == IF r3 > 0 THEN 1 ELSE 0
           bits == NatToBits(cents \div 100) \o Chunk(r0) \o Chunk(r1) \o Chunk(r2)
                     \o << sticky >>
       IN  RoundBits(StripZeros(bits), 0 - (3 * ChunkBits + 1))

(***************************************************************************)
(* Text.  A string is a sequence of one-character strings.                 *)
(***************************************************************************)
Digits == <<"0", "1", "2", "3", "4", "5", "6", "7", "8", "9">>

IsDigit(ch) == \E d \in 1..10 : Digits[d] = ch

DigitValue(ch) == (CHOOSE d \in 1..10 : Digits[d] = ch) - 1

\* invoice.number.match(/^INV-(\d+)$/): the whole text is INV- and one or more
\* ASCII digits.
MatchesInvPattern(number) ==
  /\ Len(number) >= 5
  /\ SubSeq(number, 1, 4) = <<"I", "N", "V", "-">>
  /\ \A i \in 5..Len(number) : IsDigit(number[i])

\* parseInt(match[1]): the decimal numeral read exactly (Horner's rule on
\* binary numerals, ten times x being 8x + 2x), then rounded to a double.
ParseInt(digits) ==
  LET val[i \in 0..Len(digits)] ==
        IF i = 0 THEN << >>
        ELSE LET prev == val[i - 1]
                 ten  == IF Len(prev) = 0 THEN << >>
                         ELSE AddBits(prev \o <<0, 0, 0>>, prev \o <<0>>)
             IN  IF Len(ten) = 0 THEN NatToBits(DigitValue(digits[i]))
                 ELSE AddBits(ten, NatToBits(DigitValue(digits[i])))
      exact == val[Len(digits)]
  IN  IF exact = << >> THEN DZero ELSE RoundBits(exact, 0)

\* The binary numeral of an integer-valued double.
IntegerBits(x) ==
  IF x.m = << >> THEN << >>
  ELSE IF x.e >= 0 THEN x.m \o Zeros(x.e)
  ELSE SubSeq(x.m, 1, SigBits + x.e)

\* The value of a bit string of at most LimbBits bits.
LimbBits == 15

TwoToLimb == 32768

RECURSIVE BitsToNat(_)
BitsToNat(b) ==
  IF b = << >> THEN 0 ELSE 2 * BitsToNat(SubSeq(b, 1, Len(b) - 1)) + b[Len(b)]

\* Long division of a binary numeral by ten, LimbBits bits at a time:
\* [q |-> quotient, r |-> remainder].
DivTen(b) ==
  LET limbs == (Len(b) + LimbBits - 1) \div LimbBits
      padded == PadLeft(b, limbs * LimbBits)
      limb(i) == BitsToNat(SubSeq(padded, (i - 1) * LimbBits + 1, i * LimbBits))
      rem[i \in 0..limbs] ==
        IF i = 0 THEN 0 ELSE (rem[i - 1] * TwoToLimb + limb(i)) % 10
      quot(i) == PadLeft(NatToBits((rem[i - 1] * TwoToLimb + limb(i)) \div 10), LimbBits)
      all[i \in 0..limbs] == IF i = 0 THEN << >> ELSE all[i - 1] \o quot(i)
  IN  [q |-> StripZeros(all[limbs]), r |-> rem[limbs]]

\* String(n) for an integer-valued double n: its decimal digits.  (For
\* integers up to 2^53, where every digit is significant, this is the text
\* Number.prototype.toString produces.)
RECURSIVE DecimalText(_)
DecimalText(b) ==
  IF b = << >> THEN << >>
  ELSE LET d == DivTen(b) IN Append(DecimalText(d.q), Digits[d.r + 1])

NumberToString(x) == IF x.m = << >> THEN <<"0">> ELSE DecimalText(IntegerBits(x))

\* s.padStart(width, '0')
PadStart(s, width) ==
  IF Len(s) >= width THEN s ELSE [i \in 1..(width - Len(s)) |-> "0"] \o s

DOne == RoundBits(<<1>>, 0)

(***************************************************************************)
(* The tables of shared/schema.ts.  db is the relational store:            *)
(*   clients      [id, companyId, name]                                    *)
(*   companies    [id]                                                     *)
(*   users        [id, companyId, email, password, isActive]               *)
(*   invoices     [id, companyId, number, clientId, status, subtotal,      *)
(*                 taxAmount, total]                                       *)
(*   invoiceItems [id, invoiceId, quantity, amount]                        *)
(*   payments     [id, invoiceId, amount]                                  *)
(*   settings     [id, companyId, companyName, currency, defaultTaxRate]   *)
(* and seq, the next value of each table's serial id.  total and amount    *)
(* are decimal(10,2) columns, held in cents; an item's quantity is the     *)
(* text the caller sent, which the store accepts only if it is numeric.    *)
(***************************************************************************)
VARIABLES db, call, session

vars == <<db, call, session>>

Companies == {1, 2}

\* The email of the admin user each of them was provisioned with.
AdminEmail == [c \in Companies |-> IF c = 1 THEN "one@co" ELSE "two@co"]

Tables ==
  {"companies", "users", "clients", "invoices", "invoiceItems", "payments", "settings"}

\* Bounds on the serial ids handed out (rows ever created per table).
MaxClients == 2
MaxInvoices == 2
MaxPayments == 2
MaxItems == 2

\* {...row, ...patch}: the fields of patch replace those of row.
Merge(row, patch) ==
  [f \in DOMAIN row |-> IF f \in DOMAIN patch THEN patch[f] ELSE row[f]]

\* A column of type decimal accepts a text only if it reads as a number.
NumericText == {"1", "2"}

\* The outcome of a storage operation: the store afterwards, the rows it
\* returns, and whether it threw.
Outcome(d, rows, threw) == [db |-> d, rows |-> rows, threw |-> threw]

With(d, table, rows) == [d EXCEPT ![table] = rows]

Bump(d, table) == [d EXCEPT !.seq[table] = @ + 1]

\* The ids that a company_id column may reference.
CompanyIds(d) == {r.id : r \in d.companies}

(***************************************************************************)
(* server/storage.ts, DatabaseStorage.                                     *)
(***************************************************************************)
getClients(d, companyId) == {r \in d.clients : r.companyId = companyId}

getClient(d, id, companyId) ==
  {r \in d.clients : r.id = id /\ r.companyId = companyId}

createClient(d, insertClient) ==
  LET row == [id |-> d.seq.clients, companyId |-> insertClient.companyId,
              name |-> insertClient.name]
  IN  IF insertClient.companyId \notin CompanyIds(d)
      THEN Outcome(d, {}, TRUE)
      ELSE Outcome(Bump(With(d, "clients", d.clients \cup {row}), "clients"),
                   {row}, FALSE)

\* updateClient with the company left out of its WHERE clause.
updateClientAnyCompany(d, id, clientUpdate, companyId) ==
  LET hit == {r \in d.clients : r.id = id}
      new == {Merge(r, clientUpdate) : r \in hit}
  IN  IF \E r \in new : r.companyId \notin CompanyIds(d)
      THEN Outcome(d, {}, TRUE)
      ELSE Outcome(With(d, "clients", (d.clients \ hit) \cup new), new, FALSE)

updateClient(d, id, clientUpdate, companyId) ==
  LET hit == {r \in d.clients : r.id = id /\ r.companyId = companyId}
      new == {Merge(r, clientUpdate) : r \in hit}
  IN  IF \E r \in new : r.companyId \notin CompanyIds(d)
      THEN Outcome(d, {}, TRUE)
      ELSE Outcome(With(d, "clients", (d.clients \ hit) \cup new), new, FALSE)

\* invoices.client_id references clients.id: a client that an invoice still
\* names cannot be deleted.
deleteClient(d, id, companyId) ==
  LET hit == {r \in d.clients : r.id = id /\ r.companyId = companyId}
  IN  IF \E r \in hit : \E inv \in d.invoices : inv.clientId = r.id
      THEN Outcome(d, {}, TRUE)
      ELSE Outcome(With(d, "clients", d.clients \ hit), hit, FALSE)

\* invoices LEFT JOIN clients ON invoices.client_id = clients.id
JoinClient(d, inv) ==
  [invoice |-> inv, client |-> {cl \in d.clients : cl.id = inv.clientId}]

getInvoices(d, companyId) ==
  {JoinClient(d, inv) : inv \in {r \in d.invoices : r.companyId = companyId}}

getInvoiceItems(d, invoiceId) == {it \in d.invoiceItems : it.invoiceId = invoiceId}

getInvoice(d, id, companyId) ==
  {[invoice |-> inv, client |-> JoinClient(d, inv).client,
    items |-> getInvoiceItems(d, id)] :
     inv \in {r \in d.invoices : r.id = id /\ r.companyId = companyId}}

\* The row that the insert of createInvoice stores: the fields of the
\* argument, the default of a column the argument leaves out, and `status`.
InvoiceRow(d, insertInvoice, status) ==
  [id |-> d.seq.invoices, companyId |-> insertInvoice.companyId,
   number |-> insertInvoice.number, clientId |-> insertInvoice.clientId,
   status |-> status, subtotal |-> insertInvoice.subtotal,
   taxAmount |-> IF "taxAmount" \in DOMAIN insertInvoice THEN insertInvoice.taxAmount ELSE 0,
   total |-> insertInvoice.total]

\* The invoice row is inserted, then the items one by one; the first insert
\* the store rejects throws, and what was inserted before it stays.
InsertInvoiceAndItems(d, invoice, items) ==
  LET bad     == {i \in 1..Len(items) : items[i].quantity \notin NumericText}
      done    == IF bad = {} THEN Len(items)
                 ELSE (CHOOSE i \in bad : \A j \in bad : i <= j) - 1
      rows    == {[id |-> d.seq.invoiceItems + i - 1, invoiceId |-> invoice.id,
                   quantity |-> items[i].quantity, amount |-> items[i].amount] :
                    i \in 1..done}
      d1      == Bump(With(d, "invoices", d.invoices \cup {invoice}), "invoices")
      d2      == [With(d1, "invoiceItems", d1.invoiceItems \cup rows)
                    EXCEPT !.seq.invoiceItems = @ + done]
  IN  IF \/ invoice.companyId \notin CompanyIds(d)
         \/ ~ \E cl \in d.clients : cl.id = invoice.clientId
      THEN Outcome(d, {}, TRUE)
      ELSE Outcome(d2, {invoice}, bad # {})

\* createInvoice that stores the status of its argument (the column's default
\* when there is none).
createInvoiceKeepingStatus(d, insertInvoice, items) ==
  InsertInvoiceAndItems(d,
    InvoiceRow(d, insertInvoice,
               IF "status" \in DOMAIN insertInvoice THEN insertInvoice.status ELSE "draft"),
    items)

\* values({...insertInvoice, status: "sent"})
createInvoice(d, insertInvoice, items) ==
  InsertInvoiceAndItems(d, InvoiceRow(d, insertInvoice, "sent"), items)

\* updateInvoice with a check of the transition: the status of a paid
\* invoice stays.
updateInvoiceKeepingPaid(d, id, invoiceUpdate, companyId) ==
  LET hit == {r \in d.invoices : r.id = id /\ r.companyId = companyId}
      new == {Merge(r, IF r.status = "paid"
                       THEN [f \in DOMAIN invoiceUpdate \ {"status"} |-> invoiceUpdate[f]]
                       ELSE invoiceUpdate) : r \in hit}
  IN  IF \E r \in new : \/ r.companyId \notin CompanyIds(d)
                        \/ ~ \E cl \in d.clients : cl.id = r.clientId
      THEN Outcome(d, {}, TRUE)
      ELSE Outcome(With(d, "invoices", (d.invoices \ hit) \cup new), new, FALSE)

updateInvoice(d, id, invoiceUpdate, companyId) ==
  LET hit == {r \in d.invoices : r.id = id /\ r.companyId = companyId}
      new == {Merge(r, invoiceUpdate) : r \in hit}
  IN  IF \E r \in new : \/ r.companyId \notin CompanyIds(d)
                        \/ ~ \E cl \in d.clients : cl.id = r.clientId
      THEN Outcome(d, {}, TRUE)
      ELSE Outcome(With(d, "invoices", (d.invoices \ hit) \cup new), new, FALSE)

\* deleteInvoice that removes the payments of every invoice of the store.
deleteInvoiceAllPayments(d, id, companyId) ==
  IF getInvoice(d, id, companyId) = {} THEN Outcome(d, {}, FALSE)
  ELSE LET d1  == With(d, "invoiceItems", {it \in d.invoiceItems : it.invoiceId # id})
           d2  == With(d1, "payments", {})
           hit == {r \in d2.invoices : r.id = id /\ r.companyId = companyId}
       IN  Outcome(With(d2, "invoices", d2.invoices \ hit), hit, FALSE)

deleteInvoice(d, id, companyId) ==
  IF getInvoice(d, id, companyId) = {} THEN Outcome(d, {}, FALSE)
  ELSE LET d1  == With(d, "invoiceItems", {it \in d.invoiceItems : it.invoiceId # id})
           d2  == With(d1, "payments", {p \in d1.payments : p.invoiceId # id})
           hit == {r \in d2.invoices : r.id = id /\ r.companyId = companyId}
       IN  Outcome(With(d2, "invoices", d2.invoices \ hit), hit, FALSE)

\* payments LEFT JOIN invoices ON payments.invoice_id = invoices.id
\* WHERE invoices.company_id = companyId [AND payments.invoice_id = invoiceId];
\* invoiceId = 0 stands for the absent (falsy) argument.
getPayments(d, companyId, invoiceId) ==
  {p \in d.payments :
     /\ \E inv \in d.invoices : inv.id = p.invoiceId /\ inv.companyId = companyId
     /\ invoiceId # 0 => p.invoiceId = invoiceId}

\* The rows of a result in the order the store returns them (by id: the
\* order of insertion).
RECURSIVE InIdOrder(_)
InIdOrder(rows) ==
  IF rows = {} THEN << >>
  ELSE LET last == CHOOSE r \in rows : \A q \in rows : q.id <= r.id
       IN  Append(InIdOrder(rows \ {last}), last)

\* The amounts (in cents) that requests carry, and the parseFloat of each.
Amounts == {10, 70, 80}

parseFloat == [cents \in Amounts |-> ParseFloatCents(cents)]

\* amounts.reduce((sum, a) => sum + parseFloat(a), 0), the additions done in
\* the order of the rows.
RECURSIVE SumInOrder(_)
SumInOrder(amounts) ==
  IF amounts = << >> THEN DZero
  ELSE DAdd(SumInOrder(SubSeq(amounts, 1, Len(amounts) - 1)),
            parseFloat[amounts[Len(amounts)]])

\* The sums are the same whenever the amounts are, so they are computed once
\* for each sequence of amounts that a result of at most MaxPayments rows holds.
totalPaidOf ==
  [amounts \in UNION {[1..n -> Amounts] : n \in 0..MaxPayments} |-> SumInOrder(amounts)]

\* invoicePayments.reduce((sum, p) => sum + parseFloat(p.amount), 0)
SumAmounts(rows) == totalPaidOf[[i \in 1..Len(rows) |-> rows[i].amount]]

createPayment(d, insertPayment) ==
  LET payment == [id |-> d.seq.payments, invoiceId |-> insertPayment.invoiceId,
                  amount |-> insertPayment.amount]
      d1      == Bump(With(d, "payments", d.payments \cup {payment}), "payments")
      found   == {r \in d1.invoices : r.id = payment.invoiceId}
      invoice == CHOOSE r \in found : TRUE
      invoicePayments == getPayments(d1, invoice.companyId, payment.invoiceId)
      totalPaid == SumAmounts(InIdOrder(invoicePayments))
  IN  IF ~ \E r \in d.invoices : r.id = insertPayment.invoiceId
      THEN Outcome(d, {}, TRUE)
      ELSE IF DGeq(totalPaid, parseFloat[invoice.total])
      THEN Outcome(updateInvoice(d1, payment.invoiceId, [status |-> "paid"],
                                 invoice.companyId).db, {payment}, FALSE)
      ELSE Outcome(d1, {payment}, FALSE)

\* parseFloat(invoice.total) - totalPaid for each pair that can occur,
\* computed once.
remainingAmountOf ==
  [total \in Amounts, amounts \in DOMAIN totalPaidOf |->
     DSub(parseFloat[total], totalPaidOf[amounts])]

\* The loop over sentInvoices: dueAmount and dueInvoicesCount after the
\* invoices of the sequence.
RECURSIVE DueOver(_, _)
DueOver(d, sent) ==
  IF sent = << >> THEN [dueAmount |-> DZero, dueInvoicesCount |-> 0]
  ELSE LET before  == DueOver(d, SubSeq(sent, 1, Len(sent) - 1))
           invoice == sent[Len(sent)]
           invoicePayments == InIdOrder({p \in d.payments : p.invoiceId = invoice.id})
           remainingAmount ==
             remainingAmountOf[invoice.total,
                               [i \in 1..Len(invoicePayments) |-> invoicePayments[i].amount]]
       IN  IF remainingAmount.sign > 0
           THEN [dueAmount |-> DAdd(before.dueAmount, remainingAmount.mag),
                 dueInvoicesCount |-> before.dueInvoicesCount + 1]
           ELSE before

\* totalIncome, dueAmount and dueInvoicesCount of the result.
getDashboardStats(d, companyId) ==
  LET allPayments  == getPayments(d, companyId, 0)
      sentInvoices == {r \in d.invoices : r.status = "sent" /\ r.companyId = companyId}
      due          == DueOver(d, InIdOrder(sentInvoices))
  IN  [totalIncome |-> SumAmounts(InIdOrder(allPayments)),
       dueAmount |-> due.dueAmount,
       dueInvoicesCount |-> due.dueInvoicesCount]

\* The invoice numbers that requests can store: those a caller supplies and
\* those next-number hands out.
INV001 == <<"I", "N", "V", "-", "0", "0", "1">>

LEGACY9999 == <<"L", "E", "G", "A", "C", "Y", "-", "9", "9", "9", "9">>

\* INV-9007199254740992: its suffix is 2^53.
INV2TO53 ==
  <<"I", "N", "V", "-", "9", "0", "0", "7", "1", "9", "9", "2", "5", "4", "7", "4",
    "0", "9", "9", "2">>

NumberPool == {INV001, LEGACY9999, INV2TO53}

KnownNumbers ==
  NumberPool \cup {<<"I", "N", "V", "-", "0", "0", Digits[k + 1]>> : k \in 1..(MaxInvoices + 1)}

\* parseInt(match[1]) of the numbers that match, computed once.
parseInt ==
  [n \in {x \in KnownNumbers : MatchesInvPattern(x)} |-> ParseInt(SubSeq(n, 5, Len(n)))]

\* String(maxNumber + 1).padStart(3, '0'), computed once for each maxNumber.
nextNumberText ==
  [x \in {parseInt[n] : n \in DOMAIN parseInt} \cup {DZero} |->
     PadStart(NumberToString(DAdd(x, DOne)), 3)]

\* The largest suffix among the company's numbers of the form INV-<digits>,
\* plus one, padded to three digits.
NextNumberAfter(numbers) ==
  LET nums == {parseInt[n] : n \in {x \in numbers : MatchesInvPattern(x)}}
      maxNumber == IF nums = {} THEN DZero
                   ELSE CHOOSE x \in nums : \A y \in nums : ~ DGt(y, x)
  IN  <<"I", "N", "V", "-">> \o nextNumberText[maxNumber]

getNextInvoiceNumber(d, companyId) ==
  NextNumberAfter({r.number : r \in {x \in d.invoices : x.companyId = companyId}})

(***************************************************************************)
(* server/routes.ts.  A route is applied to the store, the company id of   *)
(* the session user and the request; it yields the store afterwards, the  *)
(* HTTP status and the rows of the body.  A request body is a record of    *)
(* its fields; a field named "malformed" stands for a field whose value    *)
(* has the wrong type, so the schema rejects the body.                     *)
(***************************************************************************)
Reply(d, status, rows) == [db |-> d, status |-> status, rows |-> rows]

\* schema.parse(body) succeeds: the required fields are there, all well typed.
Parses(body, required) ==
  required \subseteq DOMAIN body /\ "malformed" \notin DOMAIN body

ClientRequired == {"name"}

InvoiceRequired == {"number", "clientId", "subtotal", "total"}

PaymentRequired == {"invoiceId", "amount"}

ClientsGet(d, companyId) == Reply(d, 200, getClients(d, companyId))

ClientGet(d, companyId, id) ==
  LET client == getClient(d, id, companyId)
  IN  IF client = {} THEN Reply(d, 404, {}) ELSE Reply(d, 200, client)

\* POST /api/clients with { companyId, ...clientData }: the body's companyId,
\* when it carries one, is the one stored.
ClientPostBodyCompany(d, companyId, body) ==
  IF ~ Parses(body, ClientRequired) THEN Reply(d, 400, {})
  ELSE LET o == createClient(d, body @@ [companyId |-> companyId])
       IN  IF o.threw THEN Reply(o.db, 500, {}) ELSE Reply(o.db, 201, o.rows)

\* { ...clientData, companyId }
ClientPost(d, companyId, body) ==
  IF ~ Parses(body, ClientRequired) THEN Reply(d, 400, {})
  ELSE LET o == createClient(d, [companyId |-> companyId] @@ body)
       IN  IF o.threw THEN Reply(o.db, 500, {}) ELSE Reply(o.db, 201, o.rows)

\* PUT /api/clients/:id with the call of updateClient before the parse.
ClientPutStoreFirst(d, companyId, id, body) ==
  LET o == updateClient(d, id, body, companyId)
  IN  IF ~ Parses(body, {}) THEN Reply(o.db, 400, {})
      ELSE IF o.threw THEN Reply(o.db, 500, {})
      ELSE IF o.rows = {} THEN Reply(o.db, 404, {})
      ELSE Reply(o.db, 200, o.rows)

ClientPut(d, companyId, id, body) ==
  IF ~ Parses(body, {}) THEN Reply(d, 400, {})
  ELSE LET o == updateClient(d, id, body, companyId)
       IN  IF o.threw THEN Reply(o.db, 500, {})
           ELSE IF o.rows = {} THEN Reply(o.db, 404, {})
           ELSE Reply(o.db, 200, o.rows)

ClientDelete(d, companyId, id) ==
  LET o == deleteClient(d, id, companyId)
  IN  IF o.threw THEN Reply(o.db, 500, {})
      ELSE IF o.rows = {} THEN Reply(o.db, 404, {})
      ELSE Reply(o.db, 204, {})

InvoiceNextNumber(d, companyId) ==
  Reply(d, 200, {[number |-> getNextInvoiceNumber(d, companyId)]})

InvoicesGet(d, companyId) == Reply(d, 200, getInvoices(d, companyId))

InvoiceGet(d, companyId, id) ==
  LET invoice == getInvoice(d, id, companyId)
  IN  IF invoice = {} THEN Reply(d, 404, {}) ELSE Reply(d, 200, invoice)

\* body = [invoice |-> fields, items |-> sequence of items]
InvoicePost(d, companyId, body) ==
  IF ~ Parses(body.invoice, InvoiceRequired) THEN Reply(d, 400, {})
  ELSE LET o == createInvoice(d, [companyId |-> companyId] @@ body.invoice, body.items)
       IN  IF o.threw THEN Reply(o.db, 500, {}) ELSE Reply(o.db, 201, o.rows)

InvoicePut(d, companyId, id, body) ==
  IF ~ Parses(body, {}) THEN Reply(d, 400, {})
  ELSE LET o == updateInvoice(d, id, body, companyId)
       IN  IF o.threw THEN Reply(o.db, 500, {})
           ELSE IF o.rows = {} THEN Reply(o.db, 404, {})
           ELSE Reply(o.db, 200, o.rows)

InvoiceDelete(d, companyId, id) ==
  LET o == deleteInvoice(d, id, companyId)
  IN  IF o.threw THEN Reply(o.db, 500, {})
      ELSE IF o.rows = {} THEN Reply(o.db, 404, {})
      ELSE Reply(o.db, 204, {})

PaymentsGet(d, companyId, invoiceId) ==
  Reply(d, 200, getPayments(d, companyId, invoiceId))

DashboardStatsGet(d, companyId) == Reply(d, 200, {getDashboardStats(d, companyId)})

\* The handler passes the parsed body to the store: the session's company
\* takes no part in it.
PaymentPost(d, companyId, body) ==
  IF ~ Parses(body, PaymentRequired) THEN Reply(d, 400, {})
  ELSE LET o == createPayment(d, body)
       IN  IF o.threw THEN Reply(o.db, 500, {}) ELSE Reply(o.db, 201, o.rows)

(***************************************************************************)
(* Settings.  getSettings and updateSettings call each other, and each     *)
(* awaits the store, so a settings request is followed step by step.       *)
(* call[s] is the request in flight on session s:                          *)
(*   op      "idle", "GET" (GET /api/settings) or "PUT" (PUT /api/settings)*)
(*   c       the company id of the session user                            *)
(*   patch   the body of a PUT                                             *)
(*   pc      "getSettings": about to run its select;                       *)
(*           "updateSettings": entered, about to call getSettings;         *)
(*           "write": updateSettings has existingSettings, about to write  *)
(*   nested  the updateSettings(defaults) frames that getSettings has      *)
(*           pushed and that have not returned (counted up to MaxDepth)    *)
(*   existing  the rows that the innermost getSettings returned            *)
(*   status  the status of the last response on the session (0: none yet), *)
(*   rows    and the rows of its body                                      *)
(***************************************************************************)
Sessions == {"s1", "s2"}

\* req.session of a client that has not signed in: user and admin undefined.
NoIdentity == [user |-> {}, admin |-> {}]

MaxDepth == 2

\* The row that POST /api/admin/companies inserts for a new company.
ProvisionedSettings(companyId) ==
  [id |-> companyId, companyId |-> companyId, companyName |-> "Company",
   currency |-> "INR", defaultTaxRate |-> "18.00"]

\* The argument of updateSettings in getSettings.
DefaultSettings ==
  [companyName |-> "Your Company Name", currency |-> "INR", defaultTaxRate |-> "18.00"]

Idle(status, rows) ==
  [op |-> "idle", c |-> 0, patch |-> << >>, pc |-> "", nested |-> 0,
   existing |-> {}, status |-> status, rows |-> rows]

\* The patch of the innermost updateSettings frame.
TopPatch(k) == IF k.nested > 0 THEN DefaultSettings ELSE k.patch

\* The write of updateSettings: an insert when existingSettings is undefined,
\* else an update of the row found.
writeSettings(d, existing, settingsUpdate, companyId) ==
  IF existing = {}
  THEN LET row == Merge([id |-> d.seq.settings, companyId |-> companyId,
                         companyName |-> "Your Business Name", currency |-> "INR",
                         defaultTaxRate |-> "18.00"], settingsUpdate)
       IN  IF row.companyId \notin CompanyIds(d) THEN Outcome(d, {}, TRUE)
           ELSE Outcome(Bump(With(d, "settings", d.settings \cup {row}), "settings"),
                        {row}, FALSE)
  ELSE LET hit == {r \in d.settings :
                     \E e \in existing : r.id = e.id /\ r.companyId = companyId}
           new == {Merge(r, settingsUpdate) : r \in hit}
       IN  IF \E r \in new : r.companyId \notin CompanyIds(d) THEN Outcome(d, {}, TRUE)
           ELSE Outcome(With(d, "settings", (d.settings \ hit) \cup new), new, FALSE)

\* What a frame does with the rows its callee returned: the route answers
\* (GET answers 404 when there is no row), or the updateSettings frame
\* below goes on to its write.
Returned(k, nested, rows) ==
  IF nested = 0 /\ k.op = "GET"
  THEN Idle(IF rows = {} THEN 404 ELSE 200, rows)
  ELSE [k EXCEPT !.pc = "write", !.nested = nested, !.existing = rows]

\* GET /api/settings: the handler calls getSettings.
SettingsGetCall(companyId) ==
  [op |-> "GET", c |-> companyId, patch |-> << >>, pc |-> "getSettings",
   nested |-> 0, existing |-> {}, status |-> 0, rows |-> {}]

\* PUT /api/settings: the handler parses the body, then calls updateSettings.
SettingsPutCall(companyId, body) ==
  IF ~ Parses(body, {}) THEN Idle(400, {})
  ELSE [op |-> "PUT", c |-> companyId, patch |-> body, pc |-> "updateSettings",
        nested |-> 0, existing |-> {}, status |-> 0, rows |-> {}]

Begin(s, frame) ==
  /\ call[s].op = "idle"
  /\ call' = [call EXCEPT ![s] = frame]
  /\ UNCHANGED <<db, session>>

SettingsGetReq(s, companyId) == Begin(s, SettingsGetCall(companyId))

SettingsPutReq(s, companyId, body) == Begin(s, SettingsPutCall(companyId, body))

\* getSettings: the select (limit 1), then either the return of the row or
\* the call of updateSettings with the defaults.
GetSettingsSelect(s) ==
  LET k    == call[s]
      rows == {r \in db.settings : r.companyId = k.c}
  IN  /\ k.op # "idle"
      /\ k.pc = "getSettings"
      /\ IF rows = {}
         THEN call' = [call EXCEPT ![s].pc = "updateSettings",
                                   ![s].nested = IF @ < MaxDepth THEN @ + 1 ELSE @]
         ELSE \E r \in rows : call' = [call EXCEPT ![s] = Returned(k, k.nested, {r})]
      /\ UNCHANGED <<db, session>>

\* updateSettings: its first statement, the call of getSettings.
UpdateSettingsEnter(s) ==
  /\ call[s].op # "idle"
  /\ call[s].pc = "updateSettings"
  /\ call' = [call EXCEPT ![s].pc = "getSettings"]
  /\ UNCHANGED <<db, session>>

\* updateSettings: the insert or update, and the return of its row.
UpdateSettingsWrite(s) ==
  LET k == call[s]
      o == writeSettings(db, k.existing, TopPatch(k), k.c)
  IN  /\ k.op # "idle"
      /\ k.pc = "write"
      /\ db' = o.db
      /\ call' = [call EXCEPT ![s] =
           IF o.threw THEN Idle(500, {})
           ELSE IF k.nested = 0 THEN Idle(200, o.rows)
           ELSE Returned(k, k.nested - 1, o.rows)]
      /\ UNCHANGED session

(***************************************************************************)
(* server/admin-routes.ts: the tenant directory.                           *)
(***************************************************************************)
MaxCompanies == 3

\* authService.createUser: users.email is unique.
createUser(d, companyId, email, password) ==
  LET user == [id |-> d.seq.users, companyId |-> companyId, email |-> email,
               password |-> password, isActive |-> TRUE]
  IN  IF \/ companyId \notin CompanyIds(d)
         \/ \E u \in d.users : u.email = email
      THEN Outcome(d, {}, TRUE)
      ELSE Outcome(Bump(With(d, "users", d.users \cup {user}), "users"), {user}, FALSE)

\* POST /api/admin/companies: the company, its admin user, its settings row,
\* one insert after the other; a throw leaves what was inserted before it.
CompaniesPost(d, body) ==
  IF ~ Parses(body, {"name", "email"}) THEN Reply(d, 400, {})
  ELSE LET company == [id |-> d.seq.companies]
           d1      == Bump(With(d, "companies", d.companies \cup {company}), "companies")
           o       == createUser(d1, company.id, body.email, "secret")
           row     == [ProvisionedSettings(company.id) EXCEPT !.id = o.db.seq.settings]
           d3      == Bump(With(o.db, "settings", o.db.settings \cup {row}), "settings")
       IN  IF o.threw THEN Reply(o.db, 500, {}) ELSE Reply(d3, 201, {company})

\* A row that a foreign key of another row still references.
Referenced(d, table, hit) ==
  LET ids == {r.id : r \in hit}
  IN  CASE table = "invoices" ->
             \/ \E it \in d.invoiceItems : it.invoiceId \in ids
             \/ \E p \in d.payments : p.invoiceId \in ids
        [] table = "clients" -> \E inv \in d.invoices : inv.clientId \in ids
        [] table = "companies" ->
             \/ \E u \in d.users : u.companyId \in ids
             \/ \E cl \in d.clients : cl.companyId \in ids
             \/ \E inv \in d.invoices : inv.companyId \in ids
             \/ \E st \in d.settings : st.companyId \in ids
        [] OTHER -> FALSE

\* As deleteRows, in a store without foreign keys.
deleteRowsUnreferenced(d, table, hit) == Outcome(With(d, table, d[table] \ hit), hit, FALSE)

\* db.delete(table).where(...): throws when a deleted row is referenced.
deleteRows(d, table, hit) ==
  IF Referenced(d, table, hit) THEN Outcome(d, {}, TRUE)
  ELSE Outcome(With(d, table, d[table] \ hit), hit, FALSE)

\* DELETE /api/admin/companies/:id starts: its next statement is the select
\* of the company's invoices, and `existing` holds companyInvoices.
CompanyDeleteCall(id) ==
  [op |-> "DELETE", c |-> id, patch |-> << >>, pc |-> "selectInvoices",
   nested |-> 0, existing |-> {}, status |-> 0, rows |-> {}]

\* The rows that the statement at pc deletes.
CompanyDeleteTarget(d, k) ==
  LET invoiceIds == {r.id : r \in k.existing}
  IN  CASE k.pc = "invoiceItems" -> {it \in d.invoiceItems : it.invoiceId \in invoiceIds}
        [] k.pc = "payments"     -> {p \in d.payments : p.invoiceId \in invoiceIds}
        [] k.pc = "companies"    -> {r \in d.companies : r.id = k.c}
        [] OTHER                 -> {r \in d[k.pc] : r.companyId = k.c}

\* The statement after the one at pc.
CompanyDeleteAfter(pc) ==
  CASE pc = "invoiceItems" -> "payments"
    [] pc = "payments"     -> "invoices"
    [] pc = "invoices"     -> "clients"
    [] pc = "clients"      -> "users"
    [] pc = "users"        -> "settings"
    [] pc = "settings"     -> "companies"

\* One statement of the handler: the store and the call afterwards.  A
\* throw is caught and answered 500; the last delete answers 404 when it
\* returned no company.
CompanyDeleteStep(d, k) ==
  IF k.pc = "selectInvoices"
  THEN LET companyInvoices == {[id |-> r.id] : r \in {r \in d.invoices : r.companyId = k.c}}
       IN  [db |-> d,
            call |-> [k EXCEPT !.existing = companyInvoices,
                               !.pc = IF companyInvoices = {} THEN "invoices"
                                      ELSE "invoiceItems"]]
  ELSE LET o == deleteRows(d, k.pc, CompanyDeleteTarget(d, k))
       IN  [db |-> o.db,
            call |-> IF o.threw THEN Idle(500, {})
                     ELSE IF k.pc # "companies" THEN [k EXCEPT !.pc = CompanyDeleteAfter(k.pc)]
                     ELSE IF o.rows = {} THEN Idle(404, {})
                     ELSE Idle(200, {})]

\* The handler run from call k to its answer, nothing else in between.
RECURSIVE RunCompanyDelete(_, _)
RunCompanyDelete(d, k) ==
  IF k.op = "idle" THEN Reply(d, k.status, k.rows)
  ELSE LET after == CompanyDeleteStep(d, k) IN RunCompanyDelete(after.db, after.call)

CompanyDelete(d, id) == RunCompanyDelete(d, CompanyDeleteCall(id))

\* PUT /api/admin/companies/:id; the columns it sets are not held here.
CompanyPut(d, id) ==
  LET hit == {r \in d.companies : r.id = id}
  IN  IF hit = {} THEN Reply(d, 404, {}) ELSE Reply(d, 200, hit)

\* GET /api/admin/companies
CompaniesGet(d) == Reply(d, 200, d.companies)

\* GET /api/admin/companies/:id/users
CompanyUsersGet(d, id) == Reply(d, 200, {u \in d.users : u.companyId = id})

\* GET /api/admin/stats
AdminStatsGet(d) ==
  Reply(d, 200, {[totalCompanies |-> Cardinality(d.companies),
                  totalUsers |-> Cardinality(d.users),
                  activeUsers |-> Cardinality({u \in d.users : u.isActive})]})

(***************************************************************************)
(* server/session.ts and the authentication routes.  A session holds       *)
(* user and admin, each undefined (the empty set) or one identity; the     *)
(* companyId of a user identity is 0 when it carries none.                 *)
(***************************************************************************)
\* The admin_users table: the one row that initializeAdmin creates.
AdminUsers == {[id |-> 1, email |-> "admin@billtracker.com", password |-> "password123"]}

\* A middleware answers with a status, or calls next() (0).
requireAuth(sess) == IF sess.user = {} THEN 401 ELSE 0

requireAdmin(sess) == IF sess.admin = {} THEN 401 ELSE 0

requireCompanyAccess(sess) ==
  IF \A u \in sess.user : u.companyId = 0 THEN 403 ELSE 0

\* requireCompanyAccess before requireAuth.
CompanyScopedAccessFirst(sess) ==
  IF requireCompanyAccess(sess) # 0 THEN requireCompanyAccess(sess) ELSE requireAuth(sess)

\* app.<method>(path, requireAuth, requireCompanyAccess, handler)
CompanyScoped(sess) ==
  IF requireAuth(sess) # 0 THEN requireAuth(sess) ELSE requireCompanyAccess(sess)

\* req.session.user.companyId
CompanyOf(sess) ==
  IF sess.user = {} THEN 0 ELSE (CHOOSE u \in sess.user : TRUE).companyId

\* The answer of a company-scoped route whose handler would answer `reply`.
Scoped(d, sess, reply) ==
  IF CompanyScoped(sess) # 0 THEN Reply(d, CompanyScoped(sess), {}) ELSE reply

\* The same for the routes of settings, whose handler runs in steps.
ScopedCall(sess, frame) ==
  IF CompanyScoped(sess) # 0 THEN Idle(CompanyScoped(sess), {}) ELSE frame

\* The handler of an admin route runs without requireAdmin.
AdminRouteOpen(d, sess, reply) == reply

\* app.<method>(path, requireAdmin, handler)
AdminRoute(d, sess, reply) ==
  IF requireAdmin(sess) # 0 THEN Reply(d, requireAdmin(sess), {}) ELSE reply

authenticateUser(d, email, password) ==
  {[id |-> u.id, companyId |-> u.companyId] :
     u \in {u \in d.users : u.email = email /\ u.isActive /\ u.password = password}}

authenticateAdmin(email, password) ==
  {[id |-> a.id] : a \in {a \in AdminUsers : a.email = email /\ a.password = password}}

\* POST /api/auth/login: the status and the session afterwards.
AuthLogin(d, sess, body) ==
  IF ~ Parses(body, {"email", "password"}) THEN [status |-> 400, session |-> sess]
  ELSE LET user == authenticateUser(d, body.email, body.password)
       IN  IF user = {} THEN [status |-> 401, session |-> sess]
           ELSE [status |-> 200, session |-> [sess EXCEPT !.user = user]]

\* POST /api/auth/logout that leaves req.session.user in place.
AuthLogoutKeepingUser(sess) == [status |-> 200, session |-> sess]

\* POST /api/auth/logout
AuthLogout(sess) == [status |-> 200, session |-> [sess EXCEPT !.user = {}]]

\* GET /api/auth/me
AuthMe(d, sess) ==
  IF requireAuth(sess) # 0 THEN Reply(d, requireAuth(sess), {}) ELSE Reply(d, 200, sess.user)

\* POST /api/admin/login
AdminLogin(sess, body) ==
  IF ~ Parses(body, {"email", "password"}) THEN [status |-> 400, session |-> sess]
  ELSE LET admin == authenticateAdmin(body.email, body.password)
       IN  IF admin = {} THEN [status |-> 401, session |-> sess]
           ELSE [status |-> 200, session |-> [sess EXCEPT !.admin = admin]]

\* POST /api/admin/logout
AdminLogout(sess) == [status |-> 200, session |-> [sess EXCEPT !.admin = {}]]

\* GET /api/admin/me
AdminMe(d, sess) == Reply(d, 200, sess.admin)

(***************************************************************************)
(* The requests of the other routes: one action a route, the whole handler.*)
(* The serial ids handed out are bounded.                                  *)
(***************************************************************************)
Apply(reply) == db' = reply.db /\ UNCHANGED <<call, session>>

GetClients(c) == Apply(ClientsGet(db, c))

GetClientById(c, id) == Apply(ClientGet(db, c, id))

PostClient(c, body) ==
  /\ db.seq.clients <= MaxClients
  /\ Apply(ClientPost(db, c, body))

PutClient(c, id, body) == Apply(ClientPut(db, c, id, body))

DeleteClient(c, id) == Apply(ClientDelete(db, c, id))

GetNextNumber(c) == Apply(InvoiceNextNumber(db, c))

GetInvoices(c) == Apply(InvoicesGet(db, c))

GetInvoiceById(c, id) == Apply(InvoiceGet(db, c, id))

PostInvoice(c, body) ==
  /\ db.seq.invoices <= MaxInvoices
  /\ db.seq.invoiceItems + Len(body.items) <= MaxItems + 1
  /\ Apply(InvoicePost(db, c, body))

PutInvoice(c, id, body) == Apply(InvoicePut(db, c, id, body))

DeleteInvoice(c, id) == Apply(InvoiceDelete(db, c, id))

GetPayments(c, invoiceId) == Apply(PaymentsGet(db, c, invoiceId))

PostPayment(c, body) ==
  /\ db.seq.payments <= MaxPayments
  /\ Apply(PaymentPost(db, c, body))

GetDashboardStats(c) == Apply(DashboardStatsGet(db, c))

PostCompany(body) ==
  /\ db.seq.companies <= MaxCompanies
  /\ Apply(CompaniesPost(db, body))

(***************************************************************************)
(* Initial state: the companies exist, company 1 with the settings row of  *)
(* its provisioning and company 2 without one; no client, invoice or       *)
(* payment yet.                                                            *)
(***************************************************************************)
InitialStore ==
  [companies |-> {[id |-> c] : c \in Companies},
   users |-> {[id |-> c, companyId |-> c, email |-> AdminEmail[c],
               password |-> "secret", isActive |-> TRUE] : c \in Companies},
   clients |-> {}, invoices |-> {}, invoiceItems |-> {}, payments |-> {},
   settings |-> {ProvisionedSettings(1)},
   seq |-> [companies |-> 3, users |-> 3, clients |-> 1, invoices |-> 1,
            invoiceItems |-> 1, payments |-> 1, settings |-> 2]]

\* No session has signed in; a request of company c below is the handler
\* of a request whose session passed requireAuth and requireCompanyAccess
\* with a user of company c.
Init ==
  /\ db = InitialStore
  /\ call = [s \in Sessions |-> Idle(0, {})]
  /\ session = [s \in Sessions |-> NoIdentity]

(***************************************************************************)
(* Requests.                                                               *)
(***************************************************************************)
ClientIds == 1..MaxClients

InvoiceIds == 1..MaxInvoices

GoodItem == [quantity |-> "1", amount |-> 80]

BadItem == [quantity |-> "abc", amount |-> 80]

ClientBodies ==
  {[name |-> "Acme"], [malformed |-> TRUE]}
    \cup {[name |-> "Acme", companyId |-> c] : c \in Companies}

ClientPatches ==
  {[name |-> "Bolt"], [malformed |-> TRUE]} \cup {[companyId |-> c] : c \in Companies}

ItemLists == {<<GoodItem>>, <<GoodItem, BadItem>>}

\* The status the caller sends along, if any.
SentStatuses == {"draft", "paid"}

InvoiceFields ==
  {[number |-> INV001, clientId |-> cl, subtotal |-> 80, total |-> 80] : cl \in ClientIds}
    \cup {[number |-> INV001, clientId |-> cl, subtotal |-> 80, total |-> 80,
            status |-> st] : cl \in ClientIds, st \in SentStatuses}
    \cup {[number |-> INV001, clientId |-> cl, subtotal |-> 80, total |-> 80,
            companyId |-> c] : cl \in ClientIds, c \in Companies}

InvoiceBodies == {[invoice |-> f, items |-> its] : f \in InvoiceFields, its \in ItemLists}

InvoicePatches ==
  {[status |-> "draft"], [malformed |-> TRUE]}
    \cup {[companyId |-> c] : c \in Companies}
    \cup {[clientId |-> cl] : cl \in ClientIds}

PaymentBodies == {[invoiceId |-> i, amount |-> 80] : i \in InvoiceIds}

\* The routes of clients, invoices and payments.
Next ==
  \E c \in Companies :
    \/ GetClients(c)
    \/ \E id \in ClientIds : GetClientById(c, id)
    \/ \E body \in ClientBodies : PostClient(c, body)
    \/ \E id \in ClientIds, body \in ClientPatches : PutClient(c, id, body)
    \/ \E id \in ClientIds : DeleteClient(c, id)
    \/ GetNextNumber(c)
    \/ GetInvoices(c)
    \/ \E id \in InvoiceIds : GetInvoiceById(c, id)
    \/ \E body \in InvoiceBodies : PostInvoice(c, body)
    \/ \E id \in InvoiceIds, body \in InvoicePatches : PutInvoice(c, id, body)
    \/ \E id \in InvoiceIds : DeleteInvoice(c, id)
    \/ \E id \in InvoiceIds \cup {0} : GetPayments(c, id)
    \/ \E body \in PaymentBodies : PostPayment(c, body)
    \/ GetDashboardStats(c)

Spec == Init /\ [][Next]_vars

(***************************************************************************)
(* Tenant isolation of the routes that address one row by id.              *)
(***************************************************************************)
\* Serial ids start at 1: no row ever has this id.
NoSuchId == 0

\* The clients and the invoices that belong to another company than c.
ForeignClients(c) == {r \in db.clients : r.companyId # c}

ForeignInvoices(c) == {r \in db.invoices : r.companyId # c}

\* The reply to company c addressing id is the reply for an id that does not
\* exist, and the store is as it was.
LikeAbsent(reply, absent) == reply = absent /\ reply.db = db

\* C1: for distinct companies A and B and a client or invoice A owns, a get,
\* update or delete B addresses to its id is answered as for an id that does
\* not exist, with 404 once the body passes validation, and changes no row of
\* the store: not the row, nor any item or payment that depends on it.
C1_ForeignIdIsNotFound ==
  \A c \in Companies :
    /\ \A r \in ForeignClients(c) :
         /\ LikeAbsent(ClientGet(db, c, r.id), ClientGet(db, c, NoSuchId))
         /\ ClientGet(db, c, r.id).status = 404
         /\ \A body \in ClientPatches :
              /\ LikeAbsent(ClientPut(db, c, r.id, body), ClientPut(db, c, NoSuchId, body))
              /\ Parses(body, {}) => ClientPut(db, c, r.id, body).status = 404
         /\ LikeAbsent(ClientDelete(db, c, r.id), ClientDelete(db, c, NoSuchId))
         /\ ClientDelete(db, c, r.id).status = 404
    /\ \A r \in ForeignInvoices(c) :
         /\ LikeAbsent(InvoiceGet(db, c, r.id), InvoiceGet(db, c, NoSuchId))
         /\ InvoiceGet(db, c, r.id).status = 404
         /\ \A body \in InvoicePatches :
              /\ LikeAbsent(InvoicePut(db, c, r.id, body), InvoicePut(db, c, NoSuchId, body))
              /\ Parses(body, {}) => InvoicePut(db, c, r.id, body).status = 404
         /\ LikeAbsent(InvoiceDelete(db, c, r.id), InvoiceDelete(db, c, NoSuchId))
         /\ InvoiceDelete(db, c, r.id).status = 404

\* Company 1 owns a client, an invoice with an item and a payment; company 2
\* updates the client and deletes the invoice by their ids and gets 404, while
\* company 1 itself would get through.
C1_Witness ==
  \E cl \in db.clients, inv \in db.invoices :
    /\ cl.companyId = 1 /\ inv.companyId = 1
    /\ \E it \in db.invoiceItems : it.invoiceId = inv.id
    /\ \E p \in db.payments : p.invoiceId = inv.id
    /\ ClientPut(db, 2, cl.id, [name |-> "Bolt"]).status = 404
    /\ InvoiceDelete(db, 2, inv.id).status = 404
    /\ ClientPut(db, 1, cl.id, [name |-> "Bolt"]).status = 200
    /\ InvoiceDelete(db, 1, inv.id).status = 204

\* C2: a payment that company B records against an invoice of another
\* company A is answered 404, inserts no payment row and leaves the status of
\* that invoice as it was.
C2_ForeignPaymentIsNotFound ==
  \A c \in Companies, body \in PaymentBodies :
    \A inv \in ForeignInvoices(c) :
      inv.id = body.invoiceId =>
        LET reply == PaymentPost(db, c, body)
        IN  /\ reply.status = 404
            /\ reply.db.payments = db.payments
            /\ \A after \in reply.db.invoices : after.id = inv.id => after.status = inv.status

(***************************************************************************)
(* The list routes.                                                        *)
(***************************************************************************)
OwnClients(c) == {r \in db.clients : r.companyId = c}

OwnInvoices(c) == {r \in db.invoices : r.companyId = c}

\* The payments of company c are those on the invoices of c.
OwnPayments(c) == {p \in db.payments : \E inv \in OwnInvoices(c) : inv.id = p.invoiceId}

\* C3: in every reachable state the lists of clients, invoices and payments
\* that company B gets hold exactly the rows B owns (a payment belongs to the
\* company of its invoice), and no row of another company appears anywhere in
\* them, the client row embedded in a listed invoice included.
C3_ListsHoldOwnRowsOnly ==
  \A c \in Companies :
    /\ ClientsGet(db, c).rows = OwnClients(c)
    /\ {row.invoice : row \in InvoicesGet(db, c).rows} = OwnInvoices(c)
    /\ PaymentsGet(db, c, 0).rows = OwnPayments(c)
    /\ \A row \in InvoicesGet(db, c).rows : \A cl \in row.client : cl.companyId = c

(***************************************************************************)
(* Creation and deletion of an invoice with its dependent rows.            *)
(***************************************************************************)
\* C9: an invoice and its items are created as one operation: after any
\* POST /api/invoices, the failure of an item insert included, the invoice row
\* is there if and only if all the items passed with it are there.
C9_InvoiceAndItemsTogether ==
  \A c \in Companies, body \in InvoiceBodies :
    LET reply   == InvoicePost(db, c, body)
        created == reply.db.invoices \ db.invoices
        items   == reply.db.invoiceItems \ db.invoiceItems
    IN  (created # {}) <=>
          /\ Cardinality(items) = Len(body.items)
          /\ \A it \in items : \E inv \in created : it.invoiceId = inv.id

\* C10: deleteInvoice on an invoice of the company removes the invoice row,
\* its items and its payments and no other row; afterwards the invoice is not
\* found and no item or payment names its id.
C10_DeleteInvoiceCascades ==
  \A c \in Companies :
    \A inv \in OwnInvoices(c) :
      LET reply == InvoiceDelete(db, c, inv.id)
          after == reply.db
      IN  /\ reply.status = 204
          /\ after.invoices = db.invoices \ {inv}
          /\ after.invoiceItems = {it \in db.invoiceItems : it.invoiceId # inv.id}
          /\ after.payments = {p \in db.payments : p.invoiceId # inv.id}
          /\ after.clients = db.clients /\ after.settings = db.settings
          /\ InvoiceGet(after, c, inv.id).status = 404
          /\ getInvoiceItems(after, inv.id) = {}

\* Two invoices, each with an item and a payment; the first is deleted and the
\* item and the payment of the second remain.
C10_Witness ==
  \E a \in db.invoices, b \in db.invoices :
    /\ a.id # b.id
    /\ \A inv \in {a, b} :
         /\ \E it \in db.invoiceItems : it.invoiceId = inv.id
         /\ \E p \in db.payments : p.invoiceId = inv.id
    /\ LET reply == InvoiceDelete(db, a.companyId, a.id)
       IN  /\ reply.status = 204
           /\ \E it \in reply.db.invoiceItems : it.invoiceId = b.id
           /\ \E p \in reply.db.payments : p.invoiceId = b.id

(***************************************************************************)
(* Invoice numbers.  The invoice form (createInvoiceMutation) reads        *)
(* GET /api/invoices/next-number when it opens and submits the number it   *)
(* read, or INV-001 when it has none; any other caller of the API puts     *)
(* the number of its choice into the body.                                 *)
(***************************************************************************)
\* useQuery(next-number): the session keeps the answer for its form.
ReadNextNumber(s, c) ==
  /\ call[s].op = "idle"
  /\ call' = [call EXCEPT ![s] =
       [Idle(200, InvoiceNextNumber(db, c).rows) EXCEPT !.c = c]]
  /\ UNCHANGED <<db, session>>

\* nextNumber?.number || "INV-001"
FormNumber(k, c) ==
  IF k.c = c /\ k.rows # {} THEN (CHOOSE r \in k.rows : TRUE).number ELSE INV001

\* createInvoiceMutation: the form of session s, open for company c, posts
\* an invoice for client cl under the number it holds.
SubmitInvoice(s, c, cl) ==
  LET body  == [invoice |-> [number |-> FormNumber(call[s], c), clientId |-> cl,
                             status |-> "draft", subtotal |-> 80, total |-> 80],
                items |-> <<GoodItem>>]
      reply == InvoicePost(db, c, body)
  IN  /\ call[s].op = "idle"
      /\ db.seq.invoices <= MaxInvoices
      /\ db.seq.invoiceItems <= MaxItems
      /\ db' = reply.db
      /\ call' = [call EXCEPT ![s] = Idle(reply.status, {})]
      /\ UNCHANGED session

NumberedBodies ==
  {[invoice |-> [number |-> n, clientId |-> cl, subtotal |-> 80, total |-> 80],
    items |-> <<GoodItem>>] :
     n \in NumberPool, cl \in ClientIds}

NumberingNext ==
  \E c \in Companies :
    \/ PostClient(c, [name |-> "Acme"])
    \/ \E s \in Sessions : ReadNextNumber(s, c)
    \/ \E s \in Sessions, cl \in ClientIds : SubmitInvoice(s, c, cl)
    \/ \E body \in NumberedBodies : PostInvoice(c, body)
    \/ \E id \in InvoiceIds : DeleteInvoice(c, id)

NumberingSpec == Init /\ [][NumberingNext]_vars

\* Decimal numerals as texts, computed exactly.
StripLeadingZeros(digits) ==
  LET nz == {i \in 1..Len(digits) : digits[i] # "0"}
  IN  IF nz = {} THEN <<"0">>
      ELSE SubSeq(digits, CHOOSE i \in nz : \A j \in nz : i <= j, Len(digits))

\* a < b, for numerals without leading zeros.
DecLess(a, b) ==
  \/ Len(a) < Len(b)
  \/ /\ Len(a) = Len(b)
     /\ \E i \in 1..Len(a) :
          /\ DigitValue(a[i]) < DigitValue(b[i])
          /\ \A j \in 1..(i - 1) : a[j] = b[j]

\* digits + 1
DecSucc(digits) ==
  LET low == {i \in 1..Len(digits) : digits[i] # "9"}
      k   == IF low = {} THEN 0 ELSE CHOOSE i \in low : \A j \in low : j <= i
      rest == [i \in 1..Len(digits) |->
                 IF i < k THEN digits[i]
                 ELSE IF i = k THEN Digits[DigitValue(digits[i]) + 2]
                 ELSE "0"]
  IN  IF k = 0 THEN <<"1">> \o rest ELSE rest

StoredNumbers(c) == {r.number : r \in OwnInvoices(c)}

\* INV- and m + 1 padded to three digits, m the largest suffix among the
\* numbers of the form INV-<digits>, 0 when there is none.
NumberAfterLargest(numbers) ==
  LET suffixes == {StripLeadingZeros(SubSeq(n, 5, Len(n))) :
                     n \in {x \in numbers : MatchesInvPattern(x)}}
      m == IF suffixes = {} THEN <<"0">>
           ELSE CHOOSE x \in suffixes : \A y \in suffixes : ~ DecLess(x, y)
  IN  <<"I", "N", "V", "-">> \o PadStart(DecSucc(m), 3)

\* C6: in every reachable state no two invoices of one company carry the
\* same number, whether the number was read from next-number by forms whose
\* reads and inserts interleave, or supplied by the caller.
C6_NumbersUniqueInCompany ==
  \A a \in db.invoices, b \in db.invoices :
    (a.id # b.id /\ a.companyId = b.companyId) => a.number # b.number

\* C7: getNextInvoiceNumber(companyId) is INV- followed by m + 1 padded to at
\* least three digits, m being the largest suffix among the company's stored
\* numbers of the form INV-<digits> (0 when none has the form); the other
\* stored numbers have no influence.
C7_NextIsLargestPlusOne ==
  \A c \in Companies : getNextInvoiceNumber(db, c) = NumberAfterLargest(StoredNumbers(c))

\* C8: in every reachable state the number getNextInvoiceNumber(A) returns is
\* none of the numbers stored for A, and it is the number returned when the
\* invoices of the other companies are left out of the store.
C8_NextIsFreshAndCompanyScoped ==
  \A c \in Companies :
    /\ getNextInvoiceNumber(db, c) \notin StoredNumbers(c)
    /\ getNextInvoiceNumber(db, c) =
         getNextInvoiceNumber(With(db, "invoices", OwnInvoices(c)), c)

(***************************************************************************)
(* Settings.  A request is taken at any time; once taken, its handler runs *)
(* on: the steps of a session's handler are weakly fair.                   *)
(***************************************************************************)
SettingsPatches ==
  {[currency |-> "USD"], [companyName |-> "Acme Ltd"], [defaultTaxRate |-> "5.00"],
   [malformed |-> TRUE]}

SettingsStep(s) ==
  \/ GetSettingsSelect(s)
  \/ UpdateSettingsEnter(s)
  \/ UpdateSettingsWrite(s)

SettingsNext ==
  \E s \in Sessions :
    \/ \E c \in Companies : SettingsGetReq(s, c)
    \/ \E c \in Companies, body \in SettingsPatches : SettingsPutReq(s, c, body)
    \/ SettingsStep(s)

FairSettingsSpec ==
  Init /\ [][SettingsNext]_vars /\ \A s \in Sessions : WF_vars(SettingsStep(s))

SettingsOf(c) == {r \in db.settings : r.companyId = c}

\* getSettings is running for company c, which has no settings row.
GetSettingsOnNoRow(s, c) ==
  /\ call[s].op = "GET" /\ call[s].c = c /\ call[s].pc = "getSettings"
  /\ SettingsOf(c) = {}

\* The call has returned the one row of company c, a row of the defaults.
ReturnedTheDefaultRow(s, c) ==
  /\ call[s].op = "idle" /\ call[s].status = 200
  /\ call[s].rows = SettingsOf(c)
  /\ \E r \in SettingsOf(c) :
       /\ SettingsOf(c) = {r}
       /\ r.currency = "INR" /\ r.defaultTaxRate = "18.00"

\* C4: getSettings(companyId) called for a company without a settings row
\* terminates: it persists exactly one row of the defaults (currency INR, tax
\* rate 18.00) for the company and returns that row.
C4_GetSettingsCreatesDefaults ==
  \A s \in Sessions, c \in Companies :
    GetSettingsOnNoRow(s, c) ~> ReturnedTheDefaultRow(s, c)

(***************************************************************************)
(* Payments: invoices are created and payments recorded; nothing else      *)
(* touches an invoice.                                                     *)
(***************************************************************************)
AmountBodies == {[invoiceId |-> i, amount |-> a] : i \in InvoiceIds, a \in Amounts}

PaymentsNext ==
  \E c \in Companies :
    \/ PostClient(c, [name |-> "Acme"])
    \/ \E body \in InvoiceBodies : PostInvoice(c, body)
    \/ \E body \in AmountBodies : PostPayment(c, body)
    \/ \E id \in InvoiceIds \cup {0} : GetPayments(c, id)
    \/ GetDashboardStats(c)

PaymentsSpec == Init /\ [][PaymentsNext]_vars

\* The sum of the amounts of a set of payments, in cents.
RECURSIVE CentsOf(_)
CentsOf(rows) ==
  IF rows = {} THEN 0
  ELSE LET p == CHOOSE x \in rows : TRUE IN p.amount + CentsOf(rows \ {p})

PaymentsOn(inv) == {p \in db.payments : p.invoiceId = inv.id}

\* C5: after any non-empty sequence of createPayment calls on an invoice
\* created as sent, its status is paid if and only if the sum of its payments
\* is at least its total, and sent otherwise; the status thus depends on the
\* payments recorded and not on their order.
C5_PaidIffSumCoversTotal ==
  \A inv \in db.invoices :
    PaymentsOn(inv) # {} =>
      IF CentsOf(PaymentsOn(inv)) >= inv.total
      THEN inv.status = "paid"
      ELSE inv.status = "sent"

(***************************************************************************)
(* The dashboard.                                                          *)
(***************************************************************************)
\* The invoices of company c that are sent and not covered by their
\* payments, and what remains to pay on each, in cents.
RemainderCents(inv) == inv.total - CentsOf(PaymentsOn(inv))

DueInvoices(c) == {inv \in OwnInvoices(c) : inv.status = "sent" /\ RemainderCents(inv) > 0}

RECURSIVE DueCents(_)
DueCents(invs) ==
  IF invs = {} THEN 0
  ELSE LET inv == CHOOSE x \in invs : TRUE
       IN  RemainderCents(inv) + DueCents(invs \ {inv})

\* The number that stands for an amount of cents: the double nearest to it.
NumberOfCents(cents) == ParseFloatCents(cents)

\* C11: in every reachable state getDashboardStats(companyId) returns as
\* totalIncome the sum of the payments on the company's invoices, as dueAmount
\* the sum of the positive remainders (total minus payments) of its sent
\* invoices, and as dueInvoicesCount the number of those invoices; a paid
\* invoice adds nothing to either.
C11_StatsAreTheSums ==
  \A c \in Companies :
    LET stats == getDashboardStats(db, c)
    IN  /\ stats.dueInvoicesCount = Cardinality(DueInvoices(c))
        /\ stats.totalIncome = NumberOfCents(CentsOf(OwnPayments(c)))
        /\ stats.dueAmount = NumberOfCents(DueCents(DueInvoices(c)))

(***************************************************************************)
(* The status of a new invoice.                                            *)
(***************************************************************************)
PostedRows(b, c) == InvoicePost(db, c, b).db.invoices \ db.invoices

\* C12: createInvoice stores status 'sent' whatever status the caller
\* supplied ('draft', 'paid' or none), so the invoice a POST /api/invoices
\* has just stored, whose total is positive and which has no payment, is
\* counted by the next getDashboardStats of its company: dueInvoicesCount
\* grows by one and dueAmount by the invoice's total.
C12_NewInvoiceIsSentAndDue ==
  \A c \in Companies, b \in InvoiceBodies :
    \A new \in PostedRows(b, c) :
      LET before == getDashboardStats(db, c)
          after  == getDashboardStats(InvoicePost(db, c, b).db, c)
      IN  /\ new.status = "sent"
          /\ after.dueInvoicesCount = before.dueInvoicesCount + 1
          /\ after.dueAmount = DAdd(before.dueAmount, parseFloat[new.total])

\* A company with one unpaid invoice posts an invoice whose body says 'paid'.
C12_Witness ==
  \E c \in Companies, b \in InvoiceBodies :
    /\ "status" \in DOMAIN b.invoice
    /\ b.invoice.status = "paid"
    /\ PostedRows(b, c) # {}
    /\ getDashboardStats(db, c).dueInvoicesCount = 1

(***************************************************************************)
(* The settings rows of a company: the tenant directory provisions         *)
(* companies while the sessions read and write settings.  A PUT body may   *)
(* carry any column of insertSettingsSchema, companyId among them.         *)
(***************************************************************************)
MaxSettings == 2

CompanyBodies ==
  {[name |-> "Company", email |-> e] : e \in {"one@co", "new@co"}}
    \cup {[malformed |-> TRUE]}

SettingsBodies ==
  {[malformed |-> TRUE]} \cup {[companyId |-> c] : c \in 1..MaxCompanies}

\* A step of a settings call, while serial ids of settings remain.
SettingsRowsStep(s) == SettingsStep(s) /\ db'.seq.settings <= MaxSettings + 1

SettingsRowsNext ==
  \/ \E body \in CompanyBodies : PostCompany(body)
  \/ \E s \in Sessions :
       \/ \E c \in Companies : SettingsGetReq(s, c)
       \/ \E c \in Companies, body \in SettingsBodies : SettingsPutReq(s, c, body)
       \/ SettingsRowsStep(s)

SettingsRowsSpec == Init /\ [][SettingsRowsNext]_vars

\* C13: in every reachable state there is at most one settings row per
\* company, after any sequence of company provisioning, getSettings and
\* updateSettings calls and under any interleaving of them.
C13_OneSettingsRowPerCompany ==
  \A a \in db.settings, b \in db.settings : a.companyId = b.companyId => a.id = b.id

(***************************************************************************)
(* getSettings twice.                                                      *)
(***************************************************************************)
\* GET /api/settings of company c has called getSettings.
GetSettingsCalled(s, c) ==
  /\ call[s].op = "GET" /\ call[s].c = c
  /\ call[s].pc = "getSettings" /\ call[s].nested = 0

\* The call has returned a row r, and r is what the select of a getSettings
\* called now finds: that call returns r too, through the branch that
\* writes nothing.
NextGetSettingsReturnsTheSame(s, c) ==
  /\ call[s].op = "idle" /\ call[s].status = 200
  /\ \E r \in call[s].rows : call[s].rows = {r} /\ SettingsOf(c) = {r}

\* C14: two getSettings(companyId) calls in immediate succession return the
\* same row (same id) and the second writes nothing, whether or not a
\* settings row existed before the first call: the first call returns, and
\* a call made right after it returns the row it returned.
C14_GetSettingsTwiceSameRow ==
  \A s \in Sessions, c \in Companies :
    GetSettingsCalled(s, c) ~> NextGetSettingsReturnsTheSame(s, c)

(***************************************************************************)
(* Sessions.  A session signs in and out as user and as admin and sends    *)
(* requests to every route; the store of sessions may hold, from before,   *)
(* a user identity that carries no companyId (AuthUser.companyId is        *)
(* optional).                                                              *)
(***************************************************************************)
StoredSessions == {NoIdentity, [user |-> {[id |-> 1, companyId |-> 0]}, admin |-> {}]}

AuthInit ==
  /\ db = InitialStore
  /\ call = [s \in Sessions |-> Idle(0, {})]
  /\ session \in [Sessions -> StoredSessions]

LoginBodies ==
  {[email |-> e, password |-> p] : e \in {"one@co", "two@co"}, p \in {"secret", "guess"}}
    \cup {[malformed |-> TRUE]}

AdminLoginBodies ==
  {[email |-> "admin@billtracker.com", password |-> p] : p \in {"password123", "guess"}}
    \cup {[malformed |-> TRUE]}

SignIn(s, answer) == session' = [session EXCEPT ![s] = answer.session] /\ UNCHANGED <<db, call>>

PostAuthLogin(s, body) == SignIn(s, AuthLogin(db, session[s], body))

PostAuthLogout(s) == SignIn(s, AuthLogout(session[s]))

GetAuthMe(s) == Apply(AuthMe(db, session[s]))

PostAdminLogin(s, body) == SignIn(s, AdminLogin(session[s], body))

PostAdminLogout(s) == SignIn(s, AdminLogout(session[s]))

\* The bodies of the requests: all that the requests above are drawn from,
\* and those that the sessions send here.
AllBodies ==
  [clients |-> ClientBodies, clientPatches |-> ClientPatches,
   invoices |-> InvoiceBodies, invoicePatches |-> InvoicePatches,
   payments |-> PaymentBodies, settings |-> SettingsPatches,
   companies |-> CompanyBodies]

\* Bodies that fail the schema of their route: a field of the wrong shape,
\* or a required field left out.
InvalidBodies ==
  [clients |-> {[malformed |-> TRUE], [companyId |-> 1]},
   clientPatches |-> {[malformed |-> TRUE], [name |-> "Bolt", malformed |-> TRUE]},
   invoices |-> {[invoice |-> [malformed |-> TRUE], items |-> <<GoodItem>>],
                 [invoice |-> [number |-> INV001, clientId |-> 1, subtotal |-> 80],
                  items |-> <<GoodItem>>]},
   invoicePatches |-> {[malformed |-> TRUE], [status |-> "draft", malformed |-> TRUE]},
   payments |-> {[malformed |-> TRUE], [invoiceId |-> 1]},
   settings |-> {[malformed |-> TRUE], [currency |-> "USD", malformed |-> TRUE]},
   companies |-> {[malformed |-> TRUE]}]

ValidBodies ==
  [clients |-> {[name |-> "Acme"]}, clientPatches |-> {[name |-> "Bolt"]},
   invoices |-> {b \in InvoiceBodies :
                   /\ b.items = <<GoodItem>>
                   /\ DOMAIN b.invoice = {"number", "clientId", "subtotal", "total"}},
   invoicePatches |-> {[status |-> "draft"]},
   payments |-> PaymentBodies, settings |-> {[currency |-> "USD"]},
   companies |-> {[name |-> "Company", email |-> "new@co"]}]

SentBodies == [k \in DOMAIN ValidBodies |-> ValidBodies[k] \cup InvalidBodies[k]]

\* The answers of the company-scoped routes of clients, invoices, payments
\* and the dashboard to the requests of a session.
ClientReplies(d, sess, bodies) ==
  LET c == CompanyOf(sess)
  IN  {Scoped(d, sess, ClientsGet(d, c))}
        \cup {Scoped(d, sess, ClientGet(d, c, id)) : id \in ClientIds}
        \cup {Scoped(d, sess, ClientPost(d, c, body)) : body \in bodies.clients}
        \cup {Scoped(d, sess, ClientPut(d, c, id, body)) :
                id \in ClientIds, body \in bodies.clientPatches}
        \cup {Scoped(d, sess, ClientDelete(d, c, id)) : id \in ClientIds}

InvoiceReplies(d, sess, bodies) ==
  LET c == CompanyOf(sess)
  IN  {Scoped(d, sess, InvoiceNextNumber(d, c)), Scoped(d, sess, InvoicesGet(d, c))}
        \cup {Scoped(d, sess, InvoiceGet(d, c, id)) : id \in InvoiceIds}
        \cup {Scoped(d, sess, InvoicePost(d, c, body)) : body \in bodies.invoices}
        \cup {Scoped(d, sess, InvoicePut(d, c, id, body)) :
                id \in InvoiceIds, body \in bodies.invoicePatches}
        \cup {Scoped(d, sess, InvoiceDelete(d, c, id)) : id \in InvoiceIds}

PaymentReplies(d, sess, bodies) ==
  LET c == CompanyOf(sess)
  IN  {Scoped(d, sess, PaymentsGet(d, c, id)) : id \in {0} \cup InvoiceIds}
        \cup {Scoped(d, sess, PaymentPost(d, c, body)) :
                body \in IF d.seq.payments <= MaxPayments THEN bodies.payments ELSE {}}
        \cup {Scoped(d, sess, DashboardStatsGet(d, c))}

\* The calls that GET and PUT /api/settings start for a session.
SettingsCalls(sess, bodies) ==
  {ScopedCall(sess, SettingsGetCall(CompanyOf(sess)))}
    \cup {ScopedCall(sess, SettingsPutCall(CompanyOf(sess), body)) : body \in bodies.settings}

\* The answers of the admin data routes to the requests of a session.
AdminReplies(d, sess, bodies) ==
  {AdminRoute(d, sess, AdminMe(d, sess)), AdminRoute(d, sess, CompaniesGet(d)),
   AdminRoute(d, sess, AdminStatsGet(d))}
    \cup {AdminRoute(d, sess, CompaniesPost(d, body)) : body \in bodies.companies}
    \cup {AdminRoute(d, sess, CompanyPut(d, id)) : id \in 1..MaxCompanies}
    \cup {AdminRoute(d, sess, CompanyDelete(d, id)) : id \in 1..MaxCompanies}
    \cup {AdminRoute(d, sess, CompanyUsersGet(d, id)) : id \in 1..MaxCompanies}

\* Here a request is sent while it leaves at most MaxAuthRows rows ever
\* created in a table of clients, invoices, items and payments.
MaxAuthRows == 1

IdsRemain(d) ==
  /\ \A table \in {"clients", "invoices", "invoiceItems", "payments"} :
       d.seq[table] <= MaxAuthRows + 1
  /\ d.seq.companies <= MaxCompanies + 1

\* The sessions that send requests; the others keep what the store holds.
Visitors == {"s1"}

ClientRequest(s) ==
  \E reply \in ClientReplies(db, session[s], SentBodies) : IdsRemain(reply.db) /\ Apply(reply)

InvoiceRequest(s) ==
  \E reply \in InvoiceReplies(db, session[s], SentBodies) : IdsRemain(reply.db) /\ Apply(reply)

PaymentRequest(s) ==
  \E reply \in PaymentReplies(db, session[s], SentBodies) : IdsRemain(reply.db) /\ Apply(reply)

SettingsRequest(s) == \E frame \in SettingsCalls(session[s], SentBodies) : Begin(s, frame)

AdminRequest(s) ==
  \E reply \in AdminReplies(db, session[s], SentBodies) : IdsRemain(reply.db) /\ Apply(reply)

AuthNext ==
  \E s \in Visitors :
    \/ \E body \in LoginBodies : PostAuthLogin(s, body)
    \/ PostAuthLogout(s)
    \/ GetAuthMe(s)
    \/ \E body \in AdminLoginBodies : PostAdminLogin(s, body)
    \/ PostAdminLogout(s)
    \/ ClientRequest(s)
    \/ InvoiceRequest(s)
    \/ PaymentRequest(s)
    \/ SettingsRequest(s)
    \/ SettingsStep(s)
    \/ AdminRequest(s)

AuthSpec == AuthInit /\ [][AuthNext]_vars

\* What the company-scoped routes answer to every request of a session.
ScopedReplies(sess) ==
  ClientReplies(db, sess, AllBodies) \cup InvoiceReplies(db, sess, AllBodies)
    \cup PaymentReplies(db, sess, AllBodies)

\* Every company-scoped route answers `status` and leaves the store as it
\* is; the routes of settings start no call of getSettings or updateSettings.
AllAnswer(sess, status) ==
  /\ \A reply \in ScopedReplies(sess) : reply = Reply(db, status, {})
  /\ \A frame \in SettingsCalls(sess, AllBodies) : frame = Idle(status, {})

HasNoCompany(sess) == sess.user # {} /\ \A u \in sess.user : u.companyId = 0

\* C15: every company-scoped endpoint (clients, invoices, payments,
\* settings, dashboard stats) answers 401 when the session holds no user
\* (the 401 check comes first: such a session has no companyId either) and
\* 403 when the session user carries no companyId; in both cases no storage
\* operation runs and the stored state is unchanged.
C15_NoUser401NoCompany403 ==
  \A s \in Sessions :
    /\ session[s].user = {} => AllAnswer(session[s], 401)
    /\ HasNoCompany(session[s]) => AllAnswer(session[s], 403)

\* One session holds no user, another a user without companyId, and the
\* store holds a client and an invoice that their requests name.
C15_Witness ==
  /\ \E s \in Sessions : session[s].user = {}
  /\ \E s \in Sessions : HasNoCompany(session[s])
  /\ db.clients # {}
  /\ db.invoices # {}

\* The session holds a company user and no admin.
UserOnly(sess) == sess.user # {} /\ CompanyOf(sess) # 0 /\ sess.admin = {}

\* C16: a session holding only a company-user identity gets 401 on every
\* admin data endpoint (me, companies, companies/:id, companies/:id/users,
\* stats) with no change to stored state, and no user login or logout
\* request sets session.admin.
C16_UserIsNoAdmin ==
  \A s \in Sessions :
    /\ UserOnly(session[s]) =>
         \A reply \in AdminReplies(db, session[s], AllBodies) : reply = Reply(db, 401, {})
    /\ \A body \in LoginBodies :
         AuthLogin(db, session[s], body).session.admin = session[s].admin
    /\ AuthLogout(session[s]).session.admin = session[s].admin

\* A company user is signed in, without admin, after an admin of the same
\* session provisioned a company and signed out; the store holds a client.
C16_Witness ==
  \E s \in Sessions :
    /\ UserOnly(session[s])
    /\ db.seq.companies > 3
    /\ db.clients # {}

(***************************************************************************)
(* The tenant directory against the companies' requests.  An admin         *)
(* deletes companies, statement by statement, while the companies create   *)
(* clients, invoices (the invoice row, then each item) and payments.       *)
(***************************************************************************)
\* POST /api/invoices: the handler parses the body, then calls createInvoice.
InvoicePostCall(companyId, body) ==
  IF ~ Parses(body.invoice, InvoiceRequired) THEN Idle(400, {})
  ELSE [op |-> "POST", c |-> companyId, patch |-> body, pc |-> "invoice",
        nested |-> 1, existing |-> {}, status |-> 0, rows |-> {}]

\* One insert of createInvoice: the invoice row, or item number k.nested for
\* the invoice in k.existing.  A throw is answered 500.
InvoicePostStep(d, k) ==
  IF k.pc = "invoice"
  THEN LET invoice == InvoiceRow(d, [companyId |-> k.c] @@ k.patch.invoice, "sent")
       IN  IF \/ invoice.companyId \notin CompanyIds(d)
              \/ ~ \E cl \in d.clients : cl.id = invoice.clientId
           THEN [db |-> d, call |-> Idle(500, {})]
           ELSE [db |-> Bump(With(d, "invoices", d.invoices \cup {invoice}), "invoices"),
                 call |-> IF k.patch.items = << >> THEN Idle(201, {invoice})
                          ELSE [k EXCEPT !.pc = "items", !.existing = {invoice}]]
  ELSE LET item == k.patch.items[k.nested]
           row  == [id |-> d.seq.invoiceItems,
                    invoiceId |-> (CHOOSE inv \in k.existing : TRUE).id,
                    quantity |-> item.quantity, amount |-> item.amount]
       IN  IF \/ item.quantity \notin NumericText
              \/ ~ \E inv \in d.invoices : inv.id = row.invoiceId
           THEN [db |-> d, call |-> Idle(500, {})]
           ELSE [db |-> Bump(With(d, "invoiceItems", d.invoiceItems \cup {row}),
                             "invoiceItems"),
                 call |-> IF k.nested = Len(k.patch.items) THEN Idle(201, k.existing)
                          ELSE [k EXCEPT !.nested = @ + 1]]

PostInvoiceReq(s, c, body) == Begin(s, InvoicePostCall(c, body))

PostInvoiceStep(s) ==
  LET after == InvoicePostStep(db, call[s])
  IN  /\ call[s].op = "POST"
      /\ db.seq.invoices <= MaxInvoices
      /\ db.seq.invoiceItems <= MaxItems
      /\ db' = after.db
      /\ call' = [call EXCEPT ![s] = after.call]
      /\ UNCHANGED session

DeleteCompanyReq(s, id) == Begin(s, CompanyDeleteCall(id))

DeleteCompanyStep(s) ==
  LET after == CompanyDeleteStep(db, call[s])
  IN  /\ call[s].op = "DELETE"
      /\ db' = after.db
      /\ call' = [call EXCEPT ![s] = after.call]
      /\ UNCHANGED session

\* The session of the admin; the other sessions are those of company users.
AdminSessions == {"s1"}

DirectoryNext ==
  \/ \E s \in AdminSessions :
       \/ \E id \in 1..MaxCompanies : DeleteCompanyReq(s, id)
       \/ DeleteCompanyStep(s)
  \/ \E s \in Sessions \ AdminSessions :
       \/ \E c \in Companies, body \in ValidBodies.invoices : PostInvoiceReq(s, c, body)
       \/ PostInvoiceStep(s)
  \/ \E c \in Companies :
       \/ PostClient(c, [name |-> "Acme"])
       \/ \E body \in PaymentBodies : PostPayment(c, body)

DirectorySpec == Init /\ [][DirectoryNext]_vars

\* Every company_id and invoice_id names a row that exists.
ReferencesHold ==
  /\ \A table \in {"users", "clients", "invoices", "settings"} :
       \A r \in db[table] : r.companyId \in CompanyIds(db)
  /\ \A r \in db.invoiceItems \cup db.payments :
       \E inv \in db.invoices : inv.id = r.invoiceId

\* The rows of company id in store d.
RowsOf(d, id) ==
  LET own == {inv.id : inv \in {inv \in d.invoices : inv.companyId = id}}
  IN  {r \in d.users \cup d.clients \cup d.invoices \cup d.settings : r.companyId = id}
        \cup {r \in d.invoiceItems \cup d.payments : r.invoiceId \in own}

\* The step in which DELETE /api/admin/companies/:id of session s answers.
DeleteAnswers(s, status) ==
  /\ call[s].op = "DELETE"
  /\ call'[s].op = "idle"
  /\ call'[s].status = status

\* A statement of the DELETE of session s runs for an id matching no company.
DeleteOfNoCompany(s) ==
  /\ call[s].op = "DELETE"
  /\ call[s] # call'[s]
  /\ call[s].c \notin CompanyIds(db)

\* C17: a company row is never removed while child records exist.  In no
\* reachable state, under any interleaving with the companies' create
\* requests, is a company row absent while a row references it; when the
\* DELETE reports success no user, client, invoice, item, payment or
\* settings row of the company remains; for an id matching no company the
\* DELETE removes no row and answers 404.
C17_NoCompanyDeletedWithChildren ==
  /\ []ReferencesHold
  /\ [][\A s \in Sessions :
          /\ DeleteAnswers(s, 200) =>
               RowsOf(db', call[s].c) = {} /\ call[s].c \notin CompanyIds(db')
          /\ DeleteOfNoCompany(s) =>
               db' = db /\ (call'[s].op = "idle" => call'[s].status = 404)]_vars

\* Company 1 is gone after a DELETE answered 200; it had a user and a
\* settings row from the start, and the client, the invoice with its item
\* and the payment created since are gone with it.
C17_Witness ==
  /\ 1 \notin CompanyIds(db)
  /\ db.seq.clients > 1 /\ db.seq.invoices > 1
  /\ db.seq.invoiceItems > 1 /\ db.seq.payments > 1
  /\ db.clients = {} /\ db.invoices = {}
  /\ \E s \in AdminSessions : call[s] = Idle(200, {})

(***************************************************************************)
(* The company of what a POST creates.                                     *)
(***************************************************************************)
WellFormed(body) == "malformed" \notin DOMAIN body

TotalsBodies ==
  {[invoice |-> [number |-> INV001, clientId |-> cl, subtotal |-> st, taxAmount |-> tx,
                 total |-> t],
    items |-> <<GoodItem>>] :
     cl \in ClientIds, st \in {70, 80}, tx \in {0, 10}, t \in {70, 80}}

TotalsNext ==
  \E c \in Companies :
    \/ PostClient(c, [name |-> "Acme"])
    \/ \E body \in TotalsBodies : PostInvoice(c, body)
    \/ \E id \in InvoiceIds : GetInvoiceById(c, id)
    \/ \E id \in InvoiceIds : DeleteInvoice(c, id)

TotalsSpec == Init /\ [][TotalsNext]_vars

\* C19: every invoice stored by createInvoice satisfies
\* total = subtotal + taxAmount (in cents) for every payload the server
\* accepts, and getInvoice returns it with the subtotal, taxAmount and total
\* that were stored.
C19_TotalIsSubtotalPlusTax ==
  \A inv \in db.invoices :
    /\ inv.total = inv.subtotal + inv.taxAmount
    /\ \A read \in getInvoice(db, inv.id, inv.companyId) :
         /\ read.invoice.subtotal = inv.subtotal
         /\ read.invoice.taxAmount = inv.taxAmount
         /\ read.invoice.total = inv.total

(***************************************************************************)
(* Validation before storage.                                              *)
(***************************************************************************)
\* C20: a create or update request for a client, invoice, payment or
\* settings whose body fails schema validation is answered 400 and leaves
\* the stored state unchanged: no storage call is made (the PUT of settings
\* starts no call of updateSettings).
C20_InvalidBodyIs400 ==
  \A c \in Companies :
    /\ \A body \in InvalidBodies.clients : ClientPost(db, c, body) = Reply(db, 400, {})
    /\ \A id \in ClientIds, body \in InvalidBodies.clientPatches :
         ClientPut(db, c, id, body) = Reply(db, 400, {})
    /\ \A body \in InvalidBodies.invoices : InvoicePost(db, c, body) = Reply(db, 400, {})
    /\ \A id \in InvoiceIds, body \in InvalidBodies.invoicePatches :
         InvoicePut(db, c, id, body) = Reply(db, 400, {})
    /\ \A body \in InvalidBodies.payments : PaymentPost(db, c, body) = Reply(db, 400, {})
    /\ \A body \in InvalidBodies.settings : SettingsPutCall(c, body) = Idle(400, {})

\* A PUT /api/settings has just been answered 400, and the store holds a
\* client, an invoice and a settings row that the invalid updates name.
C20_Witness ==
  /\ \E s \in Sessions : call[s] = Idle(400, {})
  /\ db.clients # {}
  /\ db.invoices # {}
  /\ db.settings # {}

(***************************************************************************)
(* Draft invoices in the due figures of the dashboard.                     *)
(***************************************************************************)
\* The invoices of company c in one of the given statuses that are not yet
\* covered by their payments.
DueInStatus(c, statuses) ==
  {inv \in OwnInvoices(c) : inv.status \in statuses /\ RemainderCents(inv) > 0}

\* C21: the due figures include draft invoices: an invoice of the company
\* whose status is 'draft' and whose total exceeds the sum of its payments is
\* counted in dueInvoicesCount (and so in dueAmount) of getDashboardStats.
C21_DraftInvoicesAreDue ==
  \A c \in Companies :
    getDashboardStats(db, c).dueInvoicesCount
      >= Cardinality(DueInStatus(c, {"draft"})) + Cardinality(DueInStatus(c, {"sent"}))

(***************************************************************************)
(* The company of a row is fixed at its creation.                          *)
(***************************************************************************)
\* The rows of the table after a step carry the companyId that the row of
\* the same id carried before it (serial ids are never handed out twice).
KeepsCompany(before, after) ==
  \A r \in before, q \in after : q.id = r.id => q.companyId = r.companyId

\* C22: no operation of a company-scoped identity changes the companyId of
\* an existing row: across every step every client, invoice and settings row
\* still carries the companyId it was created with.
C22_CompanyIdNeverChanges ==
  [][/\ KeepsCompany(db.clients, db'.clients)
     /\ KeepsCompany(db.invoices, db'.invoices)
     /\ KeepsCompany(db.settings, db'.settings)]_vars

(***************************************************************************)
(* The client embedded in an invoice that is read.                         *)
(***************************************************************************)
\* The invoices that company c reads: the list, and each invoice by its id.
InvoicesRead(c) ==
  getInvoices(db, c)
    \cup {[invoice |-> row.invoice, client |-> row.client] :
            row \in UNION {getInvoice(db, id, c) : id \in InvoiceIds}}

\* C23: every invoice returned to company B by getInvoices or getInvoice
\* embeds a client that exists and whose companyId is B, whatever clientId the
\* callers of createInvoice and updateInvoice chose.
C23_EmbeddedClientIsOwn ==
  \A c \in Companies : \A row \in InvoicesRead(c) :
    /\ row.client # {}
    /\ \A cl \in row.client : cl.companyId = c

(***************************************************************************)
(* What one company reads does not depend on the requests of another.      *)
(***************************************************************************)
\* All that company a can read of store d.
Readable(d, a) ==
  [clients |-> getClients(d, a),
   invoices |-> getInvoices(d, a),
   invoice |-> [id \in InvoiceIds |-> getInvoice(d, id, a)],
   payments |-> getPayments(d, a, 0),
   settings |-> {r \in d.settings : r.companyId = a},
   stats |-> getDashboardStats(d, a)]

\* The session of a user of company b.
MemberOf(b) == [user |-> {[id |-> b, companyId |-> b]}, admin |-> {}]

\* The answers to every request with a well-formed body that a user of
\* company b can send to the routes of clients, invoices and payments.
AnswersTo(b) ==
  ClientReplies(db, MemberOf(b), ValidBodies)
    \cup InvoiceReplies(db, MemberOf(b), ValidBodies)
    \cup PaymentReplies(db, MemberOf(b), ValidBodies)

\* C24: no request made under the identity of company B changes anything
\* that another company A can read: A's clients, invoices, payments, settings
\* and dashboard figures are the same after the request as before it.
C24_OtherCompanyUnaffected ==
  \A b \in Companies : \A a \in Companies \ {b} :
    \A reply \in AnswersTo(b) : Readable(reply.db, a) = Readable(db, a)

(***************************************************************************)
(* createPayment and deleteInvoice statement by statement.  Neither runs   *)
(* in a transaction: each awaited statement is a step of its own, and the  *)
(* statements of the requests in flight interleave.                        *)
(***************************************************************************)
\* POST /api/payments: the handler parses the body, then calls createPayment;
\* `existing` will hold the payment inserted and `rows` the invoice selected.
PaymentPostCall(body) ==
  IF ~ Parses(body, PaymentRequired) THEN Idle(400, {})
  ELSE [op |-> "PAY", c |-> 0, patch |-> body, pc |-> "insertPayment",
        nested |-> 0, existing |-> {}, status |-> 0, rows |-> {}]

\* The statements of createPayment after its insert.
PaymentAfterInsert(d, k) ==
  CASE k.pc = "selectInvoice" ->
         LET found == {r \in d.invoices : \E p \in k.existing : r.id = p.invoiceId}
         IN  [db |-> d,
              call |-> IF found = {} THEN Idle(201, k.existing)
                       ELSE [k EXCEPT !.pc = "getPayments", !.rows = found]]
    [] k.pc = "getPayments" ->
         LET invoice == CHOOSE r \in k.rows : TRUE
             invoicePayments == getPayments(d, invoice.companyId, invoice.id)
             totalPaid == SumAmounts(InIdOrder(invoicePayments))
         IN  [db |-> d,
              call |-> IF DGeq(totalPaid, parseFloat[invoice.total])
                       THEN [k EXCEPT !.pc = "updateInvoice"]
                       ELSE Idle(201, k.existing)]
    [] OTHER ->
         LET invoice == CHOOSE r \in k.rows : TRUE
             o == updateInvoice(d, invoice.id, [status |-> "paid"], invoice.companyId)
         IN  [db |-> o.db,
              call |-> IF o.threw THEN Idle(500, {}) ELSE Idle(201, k.existing)]

\* The insert of createPayment into a payments table whose invoice_id
\* references nothing.
PaymentPostStepNoKey(d, k) ==
  IF k.pc = "insertPayment"
  THEN LET payment == [id |-> d.seq.payments, invoiceId |-> k.patch.invoiceId,
                       amount |-> k.patch.amount]
       IN  [db |-> Bump(With(d, "payments", d.payments \cup {payment}), "payments"),
            call |-> [k EXCEPT !.pc = "selectInvoice", !.existing = {payment}]]
  ELSE PaymentAfterInsert(d, k)

\* One statement of createPayment.  A throw is answered 500.
PaymentPostStep(d, k) ==
  IF k.pc = "insertPayment"
  THEN LET payment == [id |-> d.seq.payments, invoiceId |-> k.patch.invoiceId,
                       amount |-> k.patch.amount]
       IN  IF ~ \E r \in d.invoices : r.id = payment.invoiceId
           THEN [db |-> d, call |-> Idle(500, {})]
           ELSE [db |-> Bump(With(d, "payments", d.payments \cup {payment}), "payments"),
                 call |-> [k EXCEPT !.pc = "selectInvoice", !.existing = {payment}]]
  ELSE PaymentAfterInsert(d, k)

PostPaymentReq(s, body) == Begin(s, PaymentPostCall(body))

PostPaymentStep(s) ==
  LET after == PaymentPostStep(db, call[s])
  IN  /\ call[s].op = "PAY"
      /\ db.seq.payments <= MaxPayments \/ call[s].pc # "insertPayment"
      /\ db' = after.db
      /\ call' = [call EXCEPT ![s] = after.call]
      /\ UNCHANGED session

\* DELETE /api/invoices/:id: the handler calls deleteInvoice(id, companyId);
\* `nested` holds the id.
InvoiceDeleteCall(companyId, id) ==
  [op |-> "DELINV", c |-> companyId, patch |-> << >>, pc |-> "getInvoice",
   nested |-> id, existing |-> {}, status |-> 0, rows |-> {}]

\* One statement of deleteInvoice: the select of getInvoice, then the three
\* deletes.  A throw is answered 500.
InvoiceDeleteStep(d, k) ==
  IF k.pc = "getInvoice"
  THEN [db |-> d,
        call |-> IF getInvoice(d, k.nested, k.c) = {} THEN Idle(404, {})
                 ELSE [k EXCEPT !.pc = "invoiceItems"]]
  ELSE LET hit == CASE k.pc = "invoiceItems" ->
                         {it \in d.invoiceItems : it.invoiceId = k.nested}
                    [] k.pc = "payments" -> {p \in d.payments : p.invoiceId = k.nested}
                    [] OTHER -> {r \in d.invoices : r.id = k.nested /\ r.companyId = k.c}
           o   == deleteRows(d, k.pc, hit)
       IN  [db |-> o.db,
            call |-> IF o.threw THEN Idle(500, {})
                     ELSE IF k.pc = "invoiceItems" THEN [k EXCEPT !.pc = "payments"]
                     ELSE IF k.pc = "payments" THEN [k EXCEPT !.pc = "invoices"]
                     ELSE IF o.rows = {} THEN Idle(404, {})
                     ELSE Idle(204, {})]

DeleteInvoiceReq(s, c, id) == Begin(s, InvoiceDeleteCall(c, id))

DeleteInvoiceStep(s) ==
  LET after == InvoiceDeleteStep(db, call[s])
  IN  /\ call[s].op = "DELINV"
      /\ db' = after.db
      /\ call' = [call EXCEPT ![s] = after.call]
      /\ UNCHANGED session

\* Company 1 creates clients and invoices; its sessions record payments and
\* delete invoices, statement by statement.
DeleteRaceNext ==
  \/ PostClient(1, [name |-> "Acme"])
  \/ \E body \in ValidBodies.invoices : PostInvoice(1, body)
  \/ \E s \in Sessions :
       \/ \E body \in PaymentBodies : PostPaymentReq(s, body)
       \/ PostPaymentStep(s)
       \/ \E id \in InvoiceIds : DeleteInvoiceReq(s, 1, id)
       \/ DeleteInvoiceStep(s)

DeleteRaceSpec == Init /\ [][DeleteRaceNext]_vars

\* C25: in every reachable state, the states between the statements of
\* deleteInvoice and of a concurrent createPayment on the same invoice
\* included, each invoice item and each payment references an invoice row
\* that exists.
C25_DependentsNameAnInvoice ==
  \A r \in db.invoiceItems \cup db.payments :
    \E inv \in db.invoices : inv.id = r.invoiceId

\* No request is in flight and a deleteInvoice was answered 500: a payment
\* recorded on the invoice between its delete of the payments and its delete
\* of the invoice row is still there and keeps the invoice row in place, its
\* items gone.
C25_Witness ==
  /\ \A s \in Sessions : call[s].op = "idle"
  /\ \E s \in Sessions : call[s] = Idle(500, {})
  /\ \E p \in db.payments : \E inv \in db.invoices :
       /\ inv.id = p.invoiceId
       /\ getInvoiceItems(db, inv.id) = {}

(***************************************************************************)
(* Concurrent payments on one invoice.                                     *)
(***************************************************************************)
\* Company 1 creates a client and invoices of total 0.80; its sessions record
\* payments, statement by statement.
PaymentRaceNext ==
  \/ PostClient(1, [name |-> "Acme"])
  \/ \E body \in ValidBodies.invoices : PostInvoice(1, body)
  \/ \E s \in Sessions :
       \/ \E body \in AmountBodies : PostPaymentReq(s, body)
       \/ PostPaymentStep(s)

PaymentRaceSpec == Init /\ [][PaymentRaceNext]_vars

\* C26: once all the createPayment calls that ran concurrently have
\* completed, for every interleaving of their statements, an invoice is
\* 'paid' whenever the sum of its recorded payments is at least its total.
C26_PaidOnceAllCompleted ==
  (\A s \in Sessions : call[s].op = "idle") =>
    \A inv \in db.invoices :
      CentsOf(PaymentsOn(inv)) >= inv.total => inv.status = "paid"

(***************************************************************************)
(* updateInvoice is a merge of the patch into the row.                     *)
(***************************************************************************)
Statuses == {"draft", "sent", "paid", "overdue"}

\* Patches of one field and of two.
UpdatePatches ==
  {[status |-> st] : st \in Statuses}
    \cup {[clientId |-> cl] : cl \in ClientIds}
    \cup {[companyId |-> c] : c \in Companies}
    \cup {[status |-> st, subtotal |-> 70] : st \in Statuses}

\* The store refuses the patch: it names a client or a company that is not
\* there.
Refused(patch) ==
  \/ "clientId" \in DOMAIN patch /\ ~ \E cl \in db.clients : cl.id = patch.clientId
  \/ "companyId" \in DOMAIN patch /\ patch.companyId \notin CompanyIds(db)

\* C27: updateInvoice(id, patch, companyId) on an invoice of the company
\* overwrites exactly the fields present in the patch and leaves every other
\* field of the invoice, every other invoice, its items and its payments as
\* they were; no transition is checked, any status may follow any status.
\* (A patch the store refuses throws and changes nothing.)
C27_UpdateInvoiceIsAMerge ==
  \A c \in Companies : \A inv \in OwnInvoices(c) : \A patch \in UpdatePatches :
    LET o == updateInvoice(db, inv.id, patch, c)
    IN  IF Refused(patch) THEN o.threw /\ o.db = db
        ELSE /\ ~ o.threw
             /\ \E after \in o.rows :
                  /\ o.rows = {after}
                  /\ DOMAIN after = DOMAIN inv
                  /\ \A f \in DOMAIN inv :
                       after[f] = IF f \in DOMAIN patch THEN patch[f] ELSE inv[f]
                  /\ o.db = [db EXCEPT !.invoices = (@ \ {inv}) \cup {after}]
             /\ InvoicePut(db, c, inv.id, patch).status = 200

\* An invoice with an item whose recorded payments cover its total has been
\* put back to 'draft'.
C27_Witness ==
  \E inv \in db.invoices :
    /\ inv.status = "draft"
    /\ CentsOf(PaymentsOn(inv)) >= inv.total
    /\ getInvoiceItems(db, inv.id) # {}

(***************************************************************************)
(* The values of an invoice's status.  The column is a text and the schema *)
(* derived from it takes any string.                                       *)
(***************************************************************************)
\* The bodies of PUT /api/invoices/:id that carry a status: the four of the
\* column's comment, and one more string.
StatusPatches == {[status |-> st] : st \in Statuses \cup {"cancelled"}}

StatusNext ==
  \E c \in Companies :
    \/ PostClient(c, [name |-> "Acme"])
    \/ \E body \in ValidBodies.invoices : PostInvoice(c, body)
    \/ \E id \in InvoiceIds, body \in StatusPatches : PutInvoice(c, id, body)
    \/ \E body \in PaymentBodies : PostPayment(c, body)

StatusSpec == Init /\ [][StatusNext]_vars

\* C28: in every reachable state each invoice's status is one of draft, sent,
\* paid, overdue, after any sequence of createInvoice, updateInvoice and
\* createPayment calls with schema-valid inputs.
C28_StatusIsOneOfFour == \A inv \in db.invoices : inv.status \in Statuses

(***************************************************************************)
(* The recent transactions of the dashboard.  Here a payment row carries   *)
(* its paymentDate (the column's defaultNow()), a whole number.            *)
(***************************************************************************)
\* .limit(10)
RecentLimit == 10

\* ORDER BY payment_date [DESC] LIMIT k: each order the store may return the
\* rows in; rows of the same paymentDate come in any order.
RECURSIVE TakeInOrder(_, _, _)
TakeInOrder(rows, k, descending) ==
  IF k = 0 \/ rows = {} THEN {<< >>}
  ELSE LET first == {r \in rows : \A q \in rows :
                       IF descending THEN q.paymentDate <= r.paymentDate
                       ELSE q.paymentDate >= r.paymentDate}
       IN  UNION {{<<r>> \o rest : rest \in TakeInOrder(rows \ {r}, k - 1, descending)} :
                    r \in first}

\* payments LEFT JOIN invoices LEFT JOIN clients WHERE invoices.company_id =
\* companyId, and the row that formattedTransactions makes of each.
RecentRows(d, companyId) ==
  {[payment |-> p,
    client |-> {cl \in d.clients : \E inv \in d.invoices :
                  inv.id = p.invoiceId /\ cl.id = inv.clientId},
    paymentDate |-> p.paymentDate,
    invoiceNumber |-> {inv.number : inv \in {r \in d.invoices : r.id = p.invoiceId}}] :
     p \in {p \in d.payments :
              \E inv \in d.invoices : inv.id = p.invoiceId /\ inv.companyId = companyId}}

\* recentTransactions with the rows ordered by paymentDate ascending.
recentTransactionsOldestFirst(d, companyId) ==
  TakeInOrder(RecentRows(d, companyId), RecentLimit, FALSE)

\* The values that recentTransactions of getDashboardStats(companyId) can
\* have.
recentTransactions(d, companyId) ==
  TakeInOrder(RecentRows(d, companyId), RecentLimit, TRUE)

\* The stores read here hold up to MaxRecentRows payments, at most MaxTied of
\* them of the same paymentDate.
MaxRecentRows == 12

MaxTied == 2

\* The paymentDate of payment i of n when the clock moved as in `ticks`
\* between the inserts; `forward` is FALSE when the later insert got the
\* earlier date.
DateOf(i, n, ticks, forward) ==
  LET at(j) == 1 + Cardinality({m \in 1..j : ticks[m] = 1})
  IN  IF forward THEN at(i) ELSE at(n + 1 - i)

\* A store in which the invoice of company 1 has the payments 1..n, that
\* numbered `other` excepted, which is on the invoice of company 2.
RecentStore(n, ticks, forward, other) ==
  LET paid(id) == \E i \in 1..n : (IF i = other THEN 2 ELSE 1) = id
  IN  [InitialStore EXCEPT
         !.clients = {[id |-> c, companyId |-> c, name |-> "Acme"] : c \in Companies},
         !.invoices = {[id |-> c, companyId |-> c, number |-> INV001, clientId |-> c,
                        status |-> IF paid(c) THEN "paid" ELSE "sent",
                        subtotal |-> 80, taxAmount |-> 0, total |-> 80] : c \in Companies},
         !.invoiceItems = {[id |-> c, invoiceId |-> c, quantity |-> "1", amount |-> 80] :
                             c \in Companies},
         !.payments = {[id |-> i, invoiceId |-> IF i = other THEN 2 ELSE 1, amount |-> 80,
                        paymentDate |-> DateOf(i, n, ticks, forward)] : i \in 1..n},
         !.seq = [@ EXCEPT !.clients = 3, !.invoices = 3, !.invoiceItems = 3,
                           !.payments = n + 1]]

\* The number of payments in the stores read: few, or about RecentLimit.
RecentSizes == {n \in 0..MaxRecentRows : n <= 2 \/ n >= RecentLimit - 1}

RecentStores ==
  {RecentStore(n, ticks, forward, other) :
     n \in RecentSizes, forward \in BOOLEAN, other \in {0, 1, MaxRecentRows},
     ticks \in {t \in [1..MaxRecentRows -> {0, 1}] :
                  /\ t[1] = 0
                  /\ \A i \in 1..MaxRecentRows :
                       Cardinality({j \in 1..MaxRecentRows :
                                      DateOf(j, MaxRecentRows, t, TRUE)
                                        = DateOf(i, MaxRecentRows, t, TRUE)}) <= MaxTied}}

RecentInit ==
  /\ db \in RecentStores
  /\ call = [s \in Sessions |-> Idle(0, {})]
  /\ session = [s \in Sessions |-> NoIdentity]

\* GET /api/dashboard/stats answers a session of company c: the
\* recentTransactions of the reply (its three sums are those of
\* getDashboardStats and change nothing).
GetRecentTransactions(s, c) ==
  /\ call[s].op = "idle"
  /\ \E recent \in recentTransactions(db, c) :
       call' = [call EXCEPT ![s] = Idle(200, {[recentTransactions |-> recent]})]
  /\ UNCHANGED <<db, session>>

RecentNext == \E c \in Companies : GetRecentTransactions("s1", c)

RecentSpec == RecentInit /\ [][RecentNext]_vars

\* C29: recentTransactions of getDashboardStats(companyId) holds at most 10
\* payments, all of them on invoices of that company, ordered by paymentDate
\* descending, and no payment of the company left out of the list has a later
\* paymentDate than a payment in the list.
C29_RecentAreTheLatestTen ==
  \A c \in Companies : \A recent \in recentTransactions(db, c) :
    LET listed == {recent[i].payment : i \in 1..Len(recent)}
    IN  /\ Len(recent) <= 10
        /\ Cardinality(listed) = Len(recent)
        /\ listed \subseteq OwnPayments(c)
        /\ \A i \in 1..Len(recent), j \in 1..Len(recent) :
             i < j => recent[i].paymentDate >= recent[j].paymentDate
        /\ \A out \in OwnPayments(c) \ listed : \A p \in listed :
             out.paymentDate <= p.paymentDate
        /\ Cardinality(OwnPayments(c)) > Len(recent) => Len(recent) = 10

\* Company 1 has 11 payments and was answered with 10 of them; the one left
\* out has the date of one that is listed, and company 2 has a payment later
\* than all of those.
C29_Witness ==
  \E row \in call["s1"].rows :
    LET listed == {row.recentTransactions[i].payment : i \in 1..Len(row.recentTransactions)}
    IN  /\ call["s1"].status = 200
        /\ Len(row.recentTransactions) = 10
        /\ listed \subseteq OwnPayments(1)
        /\ \E out \in OwnPayments(1) \ listed : \E p \in listed :
             out.paymentDate = p.paymentDate
        /\ \E q \in OwnPayments(2) : \A p \in listed : q.paymentDate > p.paymentDate

(***************************************************************************)
(* Login and logout of a company user.  The user of company 2 may have     *)
(* been set inactive in the store.                                         *)
(***************************************************************************)
LoginStores ==
  {InitialStore,
   [InitialStore EXCEPT !.users = {[u EXCEPT !.isActive = (u.companyId # 2)] : u \in @}]}

LoginInit ==
  /\ db \in LoginStores
  /\ call = [s \in Sessions |-> Idle(0, {})]
  /\ session \in [Sessions -> StoredSessions]

LoginNext ==
  \E s \in Visitors :
    \/ \E body \in LoginBodies : PostAuthLogin(s, body)
    \/ PostAuthLogout(s)
    \/ GetAuthMe(s)
    \/ ClientRequest(s)
    \/ InvoiceRequest(s)
    \/ SettingsRequest(s)
    \/ SettingsStep(s)

LoginSpec == LoginInit /\ [][LoginNext]_vars

\* The users that the credentials of a login body are those of: none when
\* the body is malformed, the password is wrong or the user is inactive.
SignedInBy(body) ==
  IF "malformed" \in DOMAIN body THEN {}
  ELSE {u \in db.users : u.email = body.email /\ u.password = body.password /\ u.isActive}

\* After a logout every company-scoped endpoint answers 401 on the session,
\* and a login attempt that fails is not answered 200 and leaves the session
\* as it is.
LoggedOutIs401 ==
  \A s \in Sessions :
    /\ AuthLogout(session[s]).session.user = {}
    /\ AllAnswer(AuthLogout(session[s]).session, 401)
    /\ \A body \in LoginBodies :
         SignedInBy(body) = {} =>
           /\ AuthLogin(db, session[s], body).status \in {400, 401}
           /\ AuthLogin(db, session[s], body).session = session[s]

\* The user of a session changes only by a logout, which removes it, or by a
\* login with the credentials of an active user, which sets that user.
UserSetByLoginOnly ==
  \A s \in Sessions :
    session'[s].user # session[s].user =>
      \/ session'[s].user = {}
      \/ \E body \in LoginBodies : \E u \in SignedInBy(body) :
           session'[s].user = {[id |-> u.id, companyId |-> u.companyId]}

\* C30: after POST /api/auth/logout on a session every company-scoped
\* endpoint answers 401 on that session until a later successful
\* POST /api/auth/login; a login attempt that fails (invalid credentials,
\* inactive user or malformed body) leaves the session's user unchanged.
C30_LoggedOutUntilLogin == []LoggedOutIs401 /\ [][UserSetByLoginOnly]_vars

\* The session created a client while signed in and holds no user now; the
\* user of company 2 is inactive and its login with the right password fails.
C30_Witness ==
  /\ session["s1"].user = {}
  /\ db.clients # {}
  /\ \E u \in db.users : ~ u.isActive
  /\ AuthLogin(db, session["s1"], [email |-> "two@co", password |-> "secret"]).status = 401

====
